---- MODULE Spec2Model ----
(***************************************************************************)
(* A model of the discrete-event network simulator:                        *)
(*   - des/priority_queue.py : MinValuePriorityQueue (a heapq binary heap) *)
(*   - des/des.py            : DESEvent, DiscreteEventSimulator            *)
(* Simulated time is modelled by naturals (the code uses floats).          *)
(***************************************************************************)
EXTENDS Integers, Sequences, FiniteSets, TLC

\* ---------------------------------------------------------------- bounds
\* Total number of events schedule_event may create in one behaviour.
MaxEvents == 3
\* Largest delay handed to schedule_event.
MaxDelay == 1
\* Largest `until` handed to run.
MaxUntil == 2

\* Number of run calls in one behaviour.
MaxRuns == 2

\* `until=None` of run, and the absent end_time attribute (times are >= 0).
None == -1

\* Delays the callers try, one of them negative.
Delays == (0 - 1) .. MaxDelay
\* The `until` arguments the callers try.
Untils == {None} \cup (0 .. MaxUntil)
\* The actions (closures) handed to schedule_event.  An action is the sequence
\* of delays it schedules when it is run; the i-th event it schedules carries
\* the rest of the sequence as its own action.
Actions == {<<>>, <<0>>, <<1>>, <<0, 0>>}

VARIABLES
    current_time,   \* DiscreteEventSimulator.current_time
    event_queue,    \* MinValuePriorityQueue._heap: the heap list of DESEvents
    seq_counter,    \* the next value of itertools.count()
    end_time,       \* the end_time attribute read by get_results
    pc,             \* "idle", "running" (inside run's loop), "returned" (run has returned)
    until,          \* the argument of the run call in progress / last returned
    result,         \* outcome of the last schedule_event call: "ok" / "AssertionError"
    created,        \* history: one record per event created, in creation order
    executed,       \* history: one record per action executed, in execution order
    runs,           \* history: number of run calls made so far
    run_from,       \* history: Len(executed) when the current/last run was called
    run_t0,         \* history: current_time when the current/last run was called
    left_over,      \* history: seqs the last run(until) left waiting, until a run() takes them
    \* --- the network (network_simulation/) ---
    failed,                          \* Link.failed, per link
    ip_forward_table,                \* NetworkNode.ip_forward_table, per node
    port_to_messages_passed,         \* NetworkNode.port_to_messages_passed, per node and port
    inbox,                           \* Node.inbox, per node
    next_available_time,             \* Link.next_available_time, per link and direction
    accumulated_transmitting_time,   \* Link.accumulated_transmitting_time, per link
    accumulated_bytes_transmitted,   \* Link.accumulated_bytes_transmitted, per link
    messages,                        \* the run ledger: every originated Message, by id
    flow_hash,                       \* hash(five_tuple) of the five-tuples in use
    sample_accepts_set,              \* whether the interpreter's random.sample takes a set
    message_ttl,                     \* the ttl Host.send_to_ip gives its messages
    topology,                        \* which topology creator built the network
    transmitted,                     \* history: one record per Link.transmit call, in call order
    delivered_by,                    \* history: message id -> the host whose on_message delivered it
    node_log,                        \* history: one record per Node.post and per on_message call, in call order
    \* --- the topology while it is being wired (connect calls) ---
    node1,                           \* Link.node1, per link
    node2,                           \* Link.node2, per link
    connected,                       \* NetworkNode.ports_to_links, per node: port -> link
    last_call,                       \* history: the last call made on a node or link, and its outcome
    calls,                           \* history: number of such calls made so far
    \* --- address arithmetic on its own (ip.py) ---
    ip_in,                           \* the arguments handed to a function of ip.py
    ip_out                           \* what the function returned

desvars == <<current_time, event_queue, seq_counter, end_time, pc, until, result,
             created, executed, runs, run_from, run_t0, left_over>>

netvars == <<failed, ip_forward_table, port_to_messages_passed, inbox,
             next_available_time, accumulated_transmitting_time,
             accumulated_bytes_transmitted, messages, flow_hash,
             sample_accepts_set, message_ttl, topology, transmitted,
             delivered_by, node_log>>

buildvars == <<node1, node2, connected, last_call, calls>>

ipvars == <<ip_in, ip_out>>

vars == <<desvars, netvars, buildvars, ipvars>>

\* ------------------------------------------------------------ DESEvent
\* @dataclass(order=True) with seq and action declared compare=False:
\* the generated __lt__ compares the time field alone.
DESEvent(time, seq, action) == [time |-> time, seq |-> seq, action |-> action]

\* Mutant: the heap ordered on the sequence number instead of the time.
EventLess_bySeq(a, b) == a.seq < b.seq

EventLess(a, b) == a.time < b.time

\* ------------------------------------------------- heapq (0-based pos)
At(heap, pos) == heap[pos + 1]
Put(heap, pos, item) == [heap EXCEPT ![pos + 1] = item]

\* heapq._siftdown(heap, startpos, pos) with newitem the item being placed.
RECURSIVE SiftDown(_, _, _, _)
SiftDown(heap, startpos, pos, newitem) ==
    IF pos > startpos
    THEN LET parentpos == (pos - 1) \div 2
             parent == At(heap, parentpos)
         IN IF EventLess(newitem, parent)
            THEN SiftDown(Put(heap, pos, parent), startpos, parentpos, newitem)
            ELSE Put(heap, pos, newitem)
    ELSE Put(heap, pos, newitem)

\* heapq._siftup(heap, pos): bubble the smaller child up until a leaf, then
\* sift the displaced item down into place.
RECURSIVE SiftUpLoop(_, _, _, _)
SiftUpLoop(heap, startpos, pos, newitem) ==
    LET endpos == Len(heap)
        childpos == 2 * pos + 1
        rightpos == childpos + 1
    IN IF childpos < endpos
       THEN LET c == IF rightpos < endpos
                        /\ ~EventLess(At(heap, childpos), At(heap, rightpos))
                     THEN rightpos ELSE childpos
            IN SiftUpLoop(Put(heap, pos, At(heap, c)), startpos, c, newitem)
       ELSE SiftDown(Put(heap, pos, newitem), startpos, pos, newitem)

SiftUp(heap, pos) == SiftUpLoop(heap, pos, pos, At(heap, pos))

\* ------------------------------------------- MinValuePriorityQueue
\* enqueue: heapq.heappush
enqueue(heap, item) ==
    LET h == Append(heap, item)
    IN SiftDown(h, 0, Len(h) - 1, item)

\* Mutant: the last element is dropped instead of replacing the root.
dequeue_rest_dropsLast(heap) == SubSeq(heap, 1, Len(heap) - 1)

\* Mutant: the item returned is the last of the heap list.
dequeue_item_last(heap) == heap[Len(heap)]

\* dequeue: heapq.heappop; the returned item ...
dequeue_item(heap) == heap[1]

\* ... and the heap it leaves.
dequeue_rest(heap) ==
    LET lastelt == heap[Len(heap)]
        h == SubSeq(heap, 1, Len(heap) - 1)
    IN IF h = <<>> THEN h ELSE SiftUp(Put(h, 0, lastelt), 0)

\* empty(): not self._heap
empty(heap) == heap = <<>>

\* __len__(): len(self._heap)
heap_len(heap) == Len(heap)

\* ------------------------------------------- DiscreteEventSimulator
\* The scheduler fields schedule_event touches, as one record: q the heap,
\* n the next sequence number, c the creation history, by the run in
\* progress (0 when the caller is outside run).
Sched(q, n, c, by) == [q |-> q, n |-> n, c |-> c, by |-> by]

\* Mutant: the assertion is missing.
delay_ok_unchecked(delay) == TRUE

\* `assert delay >= 0` of schedule_event.
delay_ok(delay) == delay >= 0

\* Mutant: the sequence counter is read but not advanced.
schedule_event_reuseSeq(s, now, delay, action) ==
    LET event_time == now + delay
        event == DESEvent(event_time, s.n, action)
    IN Sched(enqueue(s.q, event), s.n,
             Append(s.c, [seq |-> event.seq, time |-> event.time,
                          now |-> now, delay |-> delay, by |-> s.by]),
             s.by)

\* schedule_event(delay, action) called at simulated time `now` (after its
\* assertion has passed): one DESEvent at now + delay carrying
\* next(seq_counter), pushed on the heap.
schedule_event(s, now, delay, action) ==
    LET event_time == now + delay
        event == DESEvent(event_time, s.n, action)
    IN Sched(enqueue(s.q, event), s.n + 1,
             Append(s.c, [seq |-> event.seq, time |-> event.time,
                          now |-> now, delay |-> delay, by |-> s.by]),
             s.by)

\* event.action(): the closure runs at simulated time `now` and calls
\* schedule_event once per delay it holds.
RECURSIVE run_action(_, _, _)
run_action(s, now, action) ==
    IF action = <<>> THEN s
    ELSE run_action(schedule_event(s, now, Head(action), Tail(action)),
                    now, Tail(action))

\* Mutant: an event at exactly `until` is taken to lie beyond it.
beyond_until_inclusive(event, u) == u # None /\ event.time >= u

\* `until is not None and event.time > until` of run.
beyond_until(event, u) == u # None /\ event.time > u

\* Number of events an action creates, directly and through the events it
\* schedules; used to keep the number of events within MaxEvents.
RECURSIVE Weight(_)
Weight(action) ==
    IF action = <<>> THEN 0
    ELSE 1 + Weight(Tail(action)) + Weight(Tail(action))

RECURSIVE Pending(_)
Pending(heap) ==
    IF heap = <<>> THEN 0 ELSE Weight(Head(heap).action) + Pending(Tail(heap))

\* History: the events a bounded run left waiting are forgotten by the first
\* call made after a run() has returned, which took them.
LeftOverNow == IF pc = "returned" /\ until = None THEN {} ELSE left_over

\* Message.ttl of a message sent with the default.
DefaultTtl == 2000

\* The scheduler on its own: no node, no link, no message.
NoNetwork ==
    /\ failed = <<>>
    /\ ip_forward_table = <<>>
    /\ port_to_messages_passed = <<>>
    /\ inbox = <<>>
    /\ next_available_time = <<>>
    /\ accumulated_transmitting_time = <<>>
    /\ accumulated_bytes_transmitted = <<>>
    /\ messages = <<>>
    /\ flow_hash = <<>>
    /\ sample_accepts_set = TRUE
    /\ message_ttl = DefaultTtl
    /\ topology = "none"
    /\ transmitted = <<>>
    /\ delivered_by = <<>>
    /\ node_log = <<>>

\* No topology under construction.
NoBuild ==
    /\ node1 = <<>>
    /\ node2 = <<>>
    /\ connected = <<>>
    /\ last_call = [op |-> "none", outcome |-> "ok"]
    /\ calls = 0

\* No function of ip.py under test.
NoIp ==
    /\ ip_in = [kind |-> "none"]
    /\ ip_out = [op |-> "none"]

\* DiscreteEventSimulator.__init__
SimulatorInit ==
    /\ current_time = 0
    /\ event_queue = <<>>
    /\ seq_counter = 0
    /\ end_time = None
    /\ pc = "idle"
    /\ until = None
    /\ result = "ok"
    /\ created = <<>>
    /\ executed = <<>>
    /\ runs = 0
    /\ run_from = 0
    /\ run_t0 = 0
    /\ left_over = {}

Init == SimulatorInit /\ NoNetwork /\ NoBuild /\ NoIp

\* A caller (the scenario, a test) calls schedule_event between runs.
ScheduleEvent(delay, action) ==
    /\ pc \in {"idle", "returned"}
    /\ seq_counter + Pending(event_queue) + 1 + Weight(action) <= MaxEvents
    /\ pc' = "idle"
    /\ IF delay_ok(delay)
       THEN LET s == schedule_event(Sched(event_queue, seq_counter, created, 0),
                                    current_time, delay, action)
            IN /\ event_queue' = s.q
               /\ seq_counter' = s.n
               /\ created' = s.c
               /\ result' = "ok"
       ELSE \* the assertion fails before anything is touched
            /\ result' = "AssertionError"
            /\ UNCHANGED <<event_queue, seq_counter, created>>
    /\ left_over' = LeftOverNow
    /\ UNCHANGED <<current_time, end_time, until, executed, runs, run_from,
                   run_t0>>
    /\ UNCHANGED netvars
    /\ UNCHANGED <<buildvars, ipvars>>

\* run(until=u) is called: the loop is entered.
RunCall(u) ==
    /\ pc \in {"idle", "returned"}
    /\ runs < MaxRuns
    /\ pc' = "running"
    /\ until' = u
    /\ runs' = runs + 1
    /\ run_from' = Len(executed)
    /\ run_t0' = current_time
    /\ left_over' = LeftOverNow
    /\ UNCHANGED <<current_time, event_queue, seq_counter, end_time, result,
                   created, executed>>
    /\ UNCHANGED netvars
    /\ UNCHANGED <<buildvars, ipvars>>

\* One iteration of `while self.event_queue:` with the queue non-empty.
RunStep ==
    /\ pc = "running"
    /\ event_queue # <<>>
    /\ LET event == dequeue_item(event_queue)
           rest == dequeue_rest(event_queue)
       IN IF beyond_until(event, until)
          THEN \* re-enqueue, move the clock to `until`, break
               /\ event_queue' = enqueue(rest, event)
               /\ current_time' = until
               /\ pc' = "returned"
               /\ left_over' = {event_queue'[i].seq : i \in 1 .. Len(event_queue')}
               /\ UNCHANGED <<seq_counter, created, executed>>
          ELSE \* the earliest event: advance the clock, run its action
               LET s == run_action(Sched(rest, seq_counter, created, runs),
                                   event.time, event.action)
               IN /\ current_time' = event.time
                  /\ event_queue' = s.q
                  /\ seq_counter' = s.n
                  /\ created' = s.c
                  /\ executed' = Append(executed,
                                        [seq |-> event.seq, time |-> event.time,
                                         at |-> current_time', run |-> runs])
                  /\ UNCHANGED <<pc, left_over>>
    /\ UNCHANGED <<end_time, until, result, runs, run_from, run_t0>>
    /\ UNCHANGED netvars
    /\ UNCHANGED <<buildvars, ipvars>>

\* The loop condition finds the queue empty: run returns.
RunExit ==
    /\ pc = "running"
    /\ event_queue = <<>>
    /\ pc' = "returned"
    /\ left_over' = IF until = None THEN left_over ELSE {}
    /\ UNCHANGED <<current_time, event_queue, seq_counter, end_time, until,
                   result, created, executed, runs, run_from, run_t0>>
    /\ UNCHANGED netvars
    /\ UNCHANGED <<buildvars, ipvars>>

Next ==
    \/ \E delay \in Delays, action \in Actions : ScheduleEvent(delay, action)
    \/ \E u \in Untils : RunCall(u)
    \/ RunStep
    \/ RunExit

Spec == Init /\ [][Next]_vars

\* ------------------------------------------------------ history helpers
QueueSeqs == {event_queue[i].seq : i \in 1 .. Len(event_queue)}
ExecutedSeqs(from, to) == {executed[i].seq : i \in (from + 1) .. to}
CreatedSeqs == {created[i].seq : i \in 1 .. Len(created)}
\* The time given to the event with sequence number sq when it was created.
CreatedTime(sq) ==
    LET i == CHOOSE k \in 1 .. Len(created) : created[k].seq = sq
    IN created[i].time
\* How many actions executed so far were those of the event numbered sq.
TimesExecuted(sq) ==
    Cardinality({i \in 1 .. Len(executed) : executed[i].seq = sq})
TimesQueued(sq) ==
    Cardinality({i \in 1 .. Len(event_queue) : event_queue[i].seq = sq})

\* ---------------------------------------------------------------- C1
\* C1 (as claimed): events that have the same event time are executed in the
\* order of their schedule_event calls, i.e. by ascending sequence number.
C1_FifoAmongSimultaneous ==
    \A i, j \in 1 .. Len(executed) :
        (i < j /\ executed[i].time = executed[j].time)
            => executed[i].seq < executed[j].seq

\* ---------------------------------------------------------------- C2
\* C2 (as claimed): current_time never decreases, whatever schedule_event,
\* run() and run(until=u) calls are made.
C2_ClockNeverDecreases == [][current_time' >= current_time]_vars

\* ---------------------------------------------------------------- C3
\* C3: within a run, once an event has been executed no event waiting in the
\* queue has a strictly smaller time (events the actions scheduled included),
\* and the times of the events executed by one run are non-decreasing.
C3_TimeOrderWithinRun ==
    /\ \A i, j \in 1 .. Len(executed) :
          (i < j /\ executed[i].run = executed[j].run)
              => executed[i].time <= executed[j].time
    /\ (pc = "running" /\ Len(executed) > run_from)
          => \A k \in 1 .. Len(event_queue) :
                event_queue[k].time >= executed[Len(executed)].time

\* A run has executed two events of different times in time order while an
\* event that an action scheduled during this run with a positive delay waits.
C3_Witness ==
    /\ pc = "running"
    /\ \E i, j \in (run_from + 1) .. Len(executed) :
          i < j /\ executed[i].time < executed[j].time
    /\ \E q \in 1 .. Len(event_queue), k \in 1 .. Len(created) :
          /\ created[k].seq = event_queue[q].seq
          /\ created[k].by = runs
          /\ created[k].delay > 0

\* ---------------------------------------------------------------- C4
\* C4: when run(until=u) returns, the events it executed are exactly the
\* events with time <= u that had not been executed before, and the queue
\* holds every other unexecuted event exactly once; when a later run()
\* returns, each event the bounded run left waiting has been executed exactly
\* once, by that run, at its original event time.
C4_UntilSplitsByTime ==
    /\ (pc = "returned" /\ until # None) =>
          /\ ExecutedSeqs(run_from, Len(executed)) =
                {sq \in CreatedSeqs \ ExecutedSeqs(0, run_from) :
                    CreatedTime(sq) <= until}
          /\ QueueSeqs =
                {sq \in CreatedSeqs \ ExecutedSeqs(0, run_from) :
                    CreatedTime(sq) > until}
          /\ Len(event_queue) = Cardinality(QueueSeqs)
          /\ \A i \in 1 .. Len(event_queue) :
                event_queue[i].time = CreatedTime(event_queue[i].seq)
          /\ \A sq \in CreatedSeqs : TimesExecuted(sq) <= 1
    /\ (pc = "returned" /\ until = None) =>
          \A sq \in left_over :
             /\ TimesExecuted(sq) = 1
             /\ TimesQueued(sq) = 0
             /\ \E i \in (run_from + 1) .. Len(executed) :
                   /\ executed[i].seq = sq
                   /\ executed[i].at = CreatedTime(sq)

\* run(until=u) executed an event and one that its action scheduled, left
\* later events waiting, and the run() called after it has returned.
C4_Witness ==
    /\ pc = "returned"
    /\ until = None
    /\ runs = 2
    /\ left_over # {}
    /\ \E k \in 1 .. Len(created) :
          /\ created[k].by = 1
          /\ created[k].seq \in ExecutedSeqs(0, run_from)

\* ---------------------------------------------------------------- C5
\* C5 (as claimed): after run(until=u) returns, current_time equals u.
C5_ClockEqualsUntil ==
    (pc = "returned" /\ until # None) => current_time = until

\* ---------------------------------------------------------------- C6
\* C6: when run() without `until` returns, the queue is empty, every event
\* ever scheduled has been executed exactly once, and current_time is the time
\* of the last executed event (unchanged when the run executed none).
C6_RunDrainsQueue ==
    (pc = "returned" /\ until = None) =>
        /\ event_queue = <<>>
        /\ Len(created) = seq_counter
        /\ \A sq \in CreatedSeqs : TimesExecuted(sq) = 1
        /\ Len(executed) = Len(created)
        /\ current_time = IF Len(executed) > run_from
                          THEN executed[Len(executed)].time
                          ELSE run_t0

\* run() has returned after executing events scheduled before and during it.
C6_Witness ==
    /\ pc = "returned"
    /\ until = None
    /\ Len(executed) >= run_from + 3
    /\ \E k \in 1 .. Len(created) : created[k].by = runs
    /\ \E k \in 1 .. Len(created) : created[k].by = 0

\* ---------------------------------------------------------------- C7
\* C7 (as claimed): when run terminates, end_time is the final current_time.
C7_EndTimeSet ==
    pc = "returned" => end_time = current_time

\* ---------------------------------------------------------------- C8
\* C8: a schedule_event call with a negative delay fails and leaves the event
\* queue, current_time and the sequence counter as they were; a call with a
\* delay >= 0 (0 included) succeeds and adds one event.
C8_NegativeDelayRejected ==
    [][\A delay \in Delays, action \in Actions :
          ScheduleEvent(delay, action) =>
             IF delay < 0
             THEN /\ result' = "AssertionError"
                  /\ UNCHANGED <<event_queue, current_time, seq_counter>>
             ELSE /\ result' = "ok"
                  /\ Len(event_queue') = Len(event_queue) + 1
                  /\ seq_counter' = seq_counter + 1]_vars

\* A call with a negative delay has just failed on a scheduler that holds
\* events, one of them scheduled with delay 0.
C8_Witness ==
    /\ result = "AssertionError"
    /\ event_queue # <<>>
    /\ \E k \in 1 .. Len(created) : created[k].delay = 0

\* ---------------------------------------------------------------- C9
\* C9: every successful schedule_event created exactly one event, at time
\* current_time + delay, with a sequence number greater than that of every
\* event created before it; no two events share a sequence number, whether
\* waiting (re-enqueued or not) or executed, over all the runs.
C9_UniqueIncreasingSeq ==
    /\ Len(created) = seq_counter
    /\ \A i, j \in 1 .. Len(created) :
          i < j => created[i].seq < created[j].seq
    /\ \A i \in 1 .. Len(created) :
          created[i].time = created[i].now + created[i].delay
    /\ \A i, j \in 1 .. Len(event_queue) :
          i # j => event_queue[i].seq # event_queue[j].seq
    /\ \A i \in 1 .. Len(event_queue) :
          \E k \in 1 .. Len(created) :
             /\ created[k].seq = event_queue[i].seq
             /\ created[k].time = event_queue[i].time
    /\ \A i, j \in 1 .. Len(executed) :
          i # j => executed[i].seq # executed[j].seq
    /\ QueueSeqs \cap ExecutedSeqs(0, Len(executed)) = {}
    /\ Len(event_queue) + Len(executed) = Len(created)

\* Events were created by callers and by actions over two runs, and one of
\* them waits in the queue after run(until) re-enqueued it.
C9_Witness ==
    /\ runs = 2
    /\ pc = "returned"
    /\ until # None
    /\ event_queue # <<>>
    /\ executed # <<>>
    /\ \E k \in 1 .. Len(created) : created[k].by > 0
    /\ \E k \in 1 .. Len(created) : created[k].by = 0 /\ created[k].now > 0

\* ====================================================================
\* The network: network_simulation/{ip,message,link,node,network_node}.py
\* ====================================================================

\* ------------------------------------------------- IPAddress, IPPrefix
\* The element of a one-element set. Only({e(x) : x \in {v}}) is e with the
\* local variable x holding v, v being computed once.
Only(S) == CHOOSE r \in S : TRUE

RECURSIVE Pow2(_)
Pow2(n) == IF n = 0 THEN 1 ELSE 2 * Pow2(n - 1)

\* IPAddress holds four octets.
IPAddress(a, b, c, d) == <<a, b, c, d>>

\* A 32-bit value is held as its two 16-bit halves <<high, low>>, so that
\* the whole range 0 .. 2^32 - 1 is within reach of the checker's integers.
Word(high, low) == <<high, low>>

\* IPAddress.to_int: (a << 24) | (b << 16) | (c << 8) | d
to_int(ip) == Word(ip[1] * 256 + ip[2], ip[3] * 256 + ip[4])

\* 0 <= value <= 0xFFFFFFFF
in_ipv4_range(value) == value[1] \in 0 .. 65535 /\ value[2] \in 0 .. 65535

\* Mutant: the four bytes come out least significant first.
from_int_lowFirst(value) ==
    IF ~in_ipv4_range(value) THEN [raised |-> "ValueError"]
    ELSE Only({IPAddress(v[2] % 256, (v[2] \div 256) % 256,
                         v[1] % 256, (v[1] \div 256) % 256) : v \in {value}})

\* IPAddress.from_int: the four bytes of the value, most significant first:
\* (value >> 24) & 0xFF, (value >> 16) & 0xFF, (value >> 8) & 0xFF,
\* value & 0xFF.
from_int(value) ==
    IF ~in_ipv4_range(value) THEN [raised |-> "ValueError"]
    ELSE Only({IPAddress((v[1] \div 256) % 256, v[1] % 256,
                         (v[2] \div 256) % 256, v[2] % 256) : v \in {value}})

\* Mutant: the mask covers whole octets only, prefix_len rounded down.
_mask_from_prefix_wholeOctets(prefix_len) ==
    IF prefix_len < 8 THEN Word(0, 0)
    ELSE IF prefix_len < 16 THEN Word(65280, 0)
    ELSE IF prefix_len < 24 THEN Word(65535, 0)
    ELSE IF prefix_len < 32 THEN Word(65535, 65280)
    ELSE Word(65535, 65535)

\* IPPrefix._mask_from_prefix(prefix_len): 0 when prefix_len is 0, else
\* (0xFFFFFFFF << (32 - prefix_len)) & 0xFFFFFFFF, the top prefix_len bits.
_mask_from_prefix(prefix_len) ==
    IF prefix_len = 0 THEN Word(0, 0)
    ELSE IF prefix_len <= 16 THEN Word(65536 - Pow2(16 - prefix_len), 0)
    ELSE Word(65535, 65536 - Pow2(32 - prefix_len))

\* half & m for a 16-bit half and a mask half m = 65536 - 2^k (its top
\* 16 - k bits set): the low k bits cleared.
and_half(half, m) ==
    Only({(half \div low) * low : low \in {65536 - m}})

\* value & IPPrefix._mask_from_prefix(prefix_len)
and_mask(value, prefix_len) ==
    Only({Word(and_half(value[1], mask[1]), and_half(value[2], mask[2])) :
             mask \in {_mask_from_prefix(prefix_len)}})

\* ------------------------------------------------------------- text
\* A Python str is the sequence of its characters.
Digits == <<"0", "1", "2", "3", "4", "5", "6", "7", "8", "9">>

\* str(n) of an int n >= 0: its decimal digits, no leading zero.
RECURSIVE str_int(_)
str_int(n) ==
    IF n < 10 THEN <<Digits[n + 1]>>
    ELSE str_int(n \div 10) \o <<Digits[(n % 10) + 1]>>

\* sep.join(parts)
RECURSIVE join(_, _)
join(sep, parts) ==
    IF parts = <<>> THEN <<>>
    ELSE IF Len(parts) = 1 THEN Head(parts)
    ELSE Head(parts) \o <<sep>> \o join(sep, Tail(parts))

\* text.split(sep): the pieces between the separators; n separators give
\* n + 1 pieces, empty ones included.
RECURSIVE split(_, _)
split(text, sep) ==
    IF text = <<>> THEN << <<>> >>
    ELSE Only({IF Head(text) = sep THEN << <<>> >> \o rest
               ELSE << <<Head(text)>> \o Head(rest) >> \o Tail(rest) :
                  rest \in {split(Tail(text), sep)}})

\* text.strip(): leading and trailing blanks removed.
RECURSIVE strip(_)
strip(text) ==
    IF text = <<>> THEN text
    ELSE IF Head(text) = " " THEN strip(Tail(text))
    ELSE IF text[Len(text)] = " " THEN strip(SubSeq(text, 1, Len(text) - 1))
    ELSE text

\* The value of a run of decimal digits.
RECURSIVE digits_value(_)
digits_value(text) ==
    IF text = <<>> THEN 0
    ELSE digits_value(SubSeq(text, 1, Len(text) - 1)) * 10
         + (CHOOSE d \in 0 .. 9 : Digits[d + 1] = text[Len(text)])

\* A text that int() accepts, among the texts that occur here: a non-empty
\* run of digits, an optional "-" before it, blanks around it ignored.
\* int() raises ValueError on the others.
is_int_text(text) ==
    \E t \in {strip(text)} :
        \E u \in {IF t # <<>> /\ Head(t) = "-" THEN Tail(t) ELSE t} :
            /\ u # <<>>
            /\ \A k \in 1 .. Len(u) : \E d \in 1 .. 10 : Digits[d] = u[k]

\* int(text) of such a text.
int(text) ==
    Only({IF Head(t) = "-" THEN 0 - digits_value(Tail(t)) ELSE digits_value(t) :
             t \in {strip(text)}})

\* IPAddress.__str__: '.'.join(str(o) for o in self.octets)
IPAddress_str(ip) == join(".", [k \in 1 .. 4 |-> str_int(ip[k])])

\* IPAddress._validate_octets
_validate_octets(octets) == \A k \in 1 .. 4 : 0 <= octets[k] /\ octets[k] <= 255

\* The outcome of a call that raised ValueError.
ValueError == [raised |-> "ValueError"]

\* IPAddress.parse of a str: four dot-separated integers in 0 .. 255.
parse(value) ==
    Only({IF Len(parts) # 4 THEN ValueError
          ELSE IF \E k \in 1 .. 4 : ~is_int_text(parts[k]) THEN ValueError
          ELSE Only({IF _validate_octets(octets) THEN octets ELSE ValueError :
                        octets \in {[k \in 1 .. 4 |-> int(parts[k])]}}) :
             parts \in {split(strip(value), ".")}})

\* A value of the dataclass IPPrefix, as its constructor builds it: the
\* two fields are stored as given.
IPPrefix(network, prefix_len) == [network |-> network, prefix_len |-> prefix_len]

\* IPPrefix.__str__: f"{self.network}/{self.prefix_len}"
IPPrefix_str(prefix) ==
    IPAddress_str(prefix.network) \o <<"/">> \o str_int(prefix.prefix_len)

\* The prefix string "a.b.c.d/n", as written by the topology builder.
PrefixStr(a, b, c, d, n) ==
    join(".", <<str_int(a), str_int(b), str_int(c), str_int(d)>>)
        \o <<"/">> \o str_int(n)

\* IPPrefix.from_string: "addr/len" split at the slash, the length and the
\* address parsed, the length checked to be in 0 .. 32, the network address
\* masked to prefix_len bits.
from_string(s) ==
    Only({IF Len(parts) # 2 THEN ValueError
          ELSE IF ~is_int_text(parts[2]) THEN ValueError
          ELSE Only({IF DOMAIN net_addr # 1 .. 4 THEN ValueError
                     ELSE IF ~(0 <= prefix_len /\ prefix_len <= 32) THEN ValueError
                     ELSE IPPrefix(from_int(and_mask(to_int(net_addr), prefix_len)),
                                   prefix_len) :
                        prefix_len \in {int(parts[2])}, net_addr \in {parse(parts[1])}}) :
             parts \in {split(s, "/")}})

\* IPPrefix.contains(ip)
contains(prefix, ip) ==
    and_mask(to_int(ip), prefix.prefix_len)
        = and_mask(to_int(prefix.network), prefix.prefix_len)

\* ------------------------------------------------------ the topologies
\* "diamond": two edge switches joined through two aggregation switches, one
\* host per edge switch: a fat-tree pod pair without the core layer.
\* "hsh": HSHCreator.create_topology, Host1 - Switch1 - Host2.
\* "building": the nodes and links of hsh, created and not yet connected.
Hosts == IF topology \in {"hsh", "building"} THEN {"Host1", "Host2"} ELSE {"H1", "H2"}
Switches ==
    IF topology \in {"hsh", "building"} THEN {"Switch1"} ELSE {"E1", "E2", "A1", "A2"}
Nodes == Hosts \cup Switches
Links ==
    IF topology \in {"hsh", "building"} THEN {"h1_s1", "h2_s1"}
    ELSE {"H1E1", "H2E2", "E1A1", "E1A2", "E2A1", "E2A2"}

\* Host.ip_address
HostIp ==
    [h \in Hosts |->
        CASE h = "H1" -> IPAddress(10, 1, 1, 1)
          [] h = "H2" -> IPAddress(10, 1, 2, 1)
          [] h = "Host1" -> IPAddress(10, 1, 1, 1)
          [] h = "Host2" -> IPAddress(10, 1, 1, 2)]

\* NetworkNode.max_connections: Host passes 1, the creators give a switch the
\* number of its ports.
max_connections ==
    [n \in Nodes |->
        CASE n \in Hosts -> 1
          [] n \in {"E1", "E2"} -> 3
          [] n \in {"A1", "A2", "Switch1"} -> 2]

\* An endpoint of a link, or a slot, that is not set (None).
NoNode == "None"

\* NetworkNode.ports_to_links: port -> link; what the connect calls of the
\* creator leave, or, while the topology is being wired, what the calls made
\* so far have left.
ports_to_links ==
    IF topology = "building" THEN connected ELSE
    [n \in Nodes |->
        CASE n = "H1" -> <<"H1E1">>
          [] n = "H2" -> <<"H2E2">>
          [] n = "E1" -> <<"H1E1", "E1A1", "E1A2">>
          [] n = "E2" -> <<"H2E2", "E2A1", "E2A2">>
          [] n = "A1" -> <<"E1A1", "E2A1">>
          [] n = "A2" -> <<"E1A2", "E2A2">>
          [] n = "Host1" -> <<"h1_s1">>
          [] n = "Host2" -> <<"h2_s1">>
          [] n = "Switch1" -> <<"h1_s1", "h2_s1">>]

\* Link.node1 and Link.node2, in the order of the Link.connect calls.
LinkEnds ==
    IF topology = "building" THEN [l \in Links |-> <<node1[l], node2[l]>>] ELSE
    [l \in Links |->
        CASE l = "H1E1" -> <<"H1", "E1">>
          [] l = "H2E2" -> <<"H2", "E2">>
          [] l = "E1A1" -> <<"A1", "E1">>
          [] l = "E1A2" -> <<"A2", "E1">>
          [] l = "E2A1" -> <<"A1", "E2">>
          [] l = "E2A2" -> <<"A2", "E2">>
          [] l = "h1_s1" -> <<"Host1", "Switch1">>
          [] l = "h2_s1" -> <<"Host2", "Switch1">>]

\* The set_ip_routing calls of the topology builder, in call order. With no
\* core layer above them, the aggregation switches point their default route
\* 10.0.0.0/8 at port 1 (towards E1), so an address of 10.0.0.0/8 that no
\* edge switch owns travels in a loop.
Route(n, str, port) == [node |-> n, prefix |-> str, port |-> port]
DiamondRoutes ==
    << Route("H1", PrefixStr(10, 0, 0, 0, 8), 1),
       Route("E1", PrefixStr(10, 1, 1, 1, 32), 1),
       Route("H2", PrefixStr(10, 0, 0, 0, 8), 1),
       Route("E2", PrefixStr(10, 1, 2, 1, 32), 1),
       Route("A1", PrefixStr(10, 1, 1, 0, 24), 1),
       Route("E1", PrefixStr(10, 0, 0, 0, 8), 2),
       Route("A1", PrefixStr(10, 1, 2, 0, 24), 2),
       Route("E2", PrefixStr(10, 0, 0, 0, 8), 2),
       Route("A1", PrefixStr(10, 0, 0, 0, 8), 1),
       Route("A2", PrefixStr(10, 1, 1, 0, 24), 1),
       Route("E1", PrefixStr(10, 0, 0, 0, 8), 3),
       Route("A2", PrefixStr(10, 1, 2, 0, 24), 2),
       Route("E2", PrefixStr(10, 0, 0, 0, 8), 3),
       Route("A2", PrefixStr(10, 0, 0, 0, 8), 1) >>

\* The set_ip_routing calls of HSHCreator.create_topology: both host routes
\* of Switch1 name port 1, the port of the link to Host1.
HshRoutes ==
    << Route("Host1", PrefixStr(10, 0, 0, 0, 8), 1),
       Route("Host2", PrefixStr(10, 0, 0, 0, 8), 1),
       Route("Switch1", PrefixStr(10, 1, 1, 1, 32), 1),
       Route("Switch1", PrefixStr(10, 1, 1, 2, 32), 1) >>

Routes == IF topology = "hsh" THEN HshRoutes ELSE DiamondRoutes

\* IPPrefix.from_string on the prefix strings of the set_ip_routing calls:
\* the function is pure, and its value on each of these strings is worked
\* out once.
RoutePrefixes ==
    {DiamondRoutes[k].prefix : k \in 1 .. Len(DiamondRoutes)}
        \cup {HshRoutes[k].prefix : k \in 1 .. Len(HshRoutes)}
parsed_prefix == [s \in RoutePrefixes |-> from_string(s)]

\* Mutant: the port is registered whatever the state of its link.
set_ip_routing_ignoringFailed(table, ip_prefix, port_id, is_failed) ==
    IF \E i \in 1 .. Len(table) : table[i].prefix = ip_prefix
    THEN [i \in 1 .. Len(table) |->
             IF table[i].prefix = ip_prefix
             THEN [table[i] EXCEPT !.ports = Append(@, port_id)]
             ELSE table[i]]
    ELSE Append(table, [prefix |-> ip_prefix, ports |-> <<port_id>>])

\* NetworkNode.set_ip_routing(ip_prefix, port_id) on one node's table (a dict
\* in insertion order: a sequence of [prefix, ports]); is_failed tells whether
\* the port's link is failed, and then nothing is registered.
set_ip_routing(table, ip_prefix, port_id, is_failed) ==
    IF is_failed THEN table
    ELSE IF \E i \in 1 .. Len(table) : table[i].prefix = ip_prefix
         THEN [i \in 1 .. Len(table) |->
                  IF table[i].prefix = ip_prefix
                  THEN [table[i] EXCEPT !.ports = Append(@, port_id)]
                  ELSE table[i]]
         ELSE Append(table, [prefix |-> ip_prefix, ports |-> <<port_id>>])

\* The forwarding tables after the first k set_ip_routing calls, the links'
\* failed flags being fl.
RECURSIVE InstallRoutes(_, _)
InstallRoutes(k, fl) ==
    IF k = 0 THEN [n \in Nodes |-> <<>>]
    ELSE LET t == InstallRoutes(k - 1, fl)
             r == Routes[k]
         IN [t EXCEPT ![r.node] =
                set_ip_routing(@, r.prefix, r.port,
                               fl[ports_to_links[r.node][r.port]])]

\* ------------------------------------------------------------ Message
\* NetworkNode.max_path, as main.py sets it for the simple-star topology.
MaxPath == 6
\* ... and for the hsh topology.
HshMaxPath == 3
\* NetworkNode.max_path
max_path == IF topology = "hsh" THEN HshMaxPath ELSE MaxPath
\* Link.bandwidth_bps and Link.propagation_time, the same for every link:
\* a byte takes two time units to serialize, longer than the propagation, as
\* on the links of the hsh topology.
LinkBandwidth == 4
PropagationTime == 1

FiveTuple(src_ip, dst_ip) ==
    [src_ip |-> src_ip, dst_ip |-> dst_ip, src_protocol_port |-> 0,
     dst_protocol_port |-> 0, protocol |-> "TCP"]

Message(id, five_tuple, size_bytes, brith_time, ttl) ==
    [id |-> id, five_tuple |-> five_tuple, size_bytes |-> size_bytes,
     brith_time |-> brith_time, ttl |-> ttl, path_length |-> 0,
     delivered |-> FALSE, dropped |-> FALSE, lost |-> FALSE,
     arrival_time |-> None]

\* Mutant: both comparisons let equality through.
is_expired_inclusive(m, now, limit) ==
    (now - m.brith_time) >= m.ttl \/ m.path_length >= limit

\* Message.is_expired(current_time, max_path)
is_expired(m, now, limit) ==
    (now - m.brith_time) > m.ttl \/ m.path_length > limit

\* The ledger keeps message id at position id + 1.
Msg(w, id) == w.msgs[id + 1]

\* The actions the network schedules.
SendAction(host, dst_ip, size_bytes) ==
    [kind |-> "send", host |-> host, dst_ip |-> dst_ip,
     size_bytes |-> size_bytes]
DeliverAction(node, id) == [kind |-> "deliver", node |-> node, id |-> id]
HandleAction(node) == [kind |-> "handle", node |-> node]

\* Everything an action may touch while it runs, as one record: s the
\* scheduler fields (Sched), the ledger, the inboxes, the seen sets, the link
\* fields, err, the exception that ended the action ("" when none), and drawn,
\* the population random.sample drew from ({} when it was not called), and
\* the histories tx (transmitted), by (delivered_by) and log (node_log).
World(sch) ==
    [s |-> sch, msgs |-> messages, inbox |-> inbox,
     seen |-> port_to_messages_passed, nat |-> next_available_time,
     ttime |-> accumulated_transmitting_time,
     bytes |-> accumulated_bytes_transmitted, err |-> "", drawn |-> {},
     tx |-> transmitted, by |-> delivered_by, log |-> node_log]

Raise(w, what) == [w EXCEPT !.err = what]

\* Mutant: the link is taken to be free at once.
Max_now(a, b) == a

\* max(now, self.next_available_time[link_index])
Max(a, b) == IF a >= b THEN a ELSE b

\* --------------------------------------------------------------- Link
\* Mutant: a link with one endpoint set may transmit.
transmit_ok_oneEndpoint(link, sender) ==
    /\ sender \in {LinkEnds[link][1], LinkEnds[link][2]}
    /\ ~failed[link]

\* The assertions of Link.transmit: both endpoints are set, sender is one of
\* them, the link is up.
transmit_ok(link, sender) ==
    /\ LinkEnds[link][1] # NoNode /\ LinkEnds[link][2] # NoNode
    /\ sender \in {LinkEnds[link][1], LinkEnds[link][2]}
    /\ ~failed[link]

\* Mutant: both endpoints use the serializer of direction 0.
link_index_of_shared(link, sender) == 0

\* link_index = 0 if sender == self.node1 else 1
link_index_of(link, sender) == IF sender = LinkEnds[link][1] THEN 0 ELSE 1

\* Mutant: a message takes no time to serialize.
serialization_duration_none(size_bytes) == 0

\* serialization_duration = message.size_bytes * 8 / self.bandwidth_bps
serialization_duration_of(size_bytes) == (size_bytes * 8) \div LinkBandwidth

\* Mutant: the counters keep the last transmission only.
transmit_overwritesCounters(w, link, id, sender, now) ==
    IF ~transmit_ok(link, sender) THEN Raise(w, "AssertionError")
    ELSE
    LET dst == IF sender = LinkEnds[link][1] THEN LinkEnds[link][2]
               ELSE LinkEnds[link][1]
        link_index == link_index_of(link, sender)
        actual_start_time == Max(now, w.nat[link][link_index + 1])
        serialization_duration ==
            serialization_duration_of(Msg(w, id).size_bytes)
        finish_serialization_time == actual_start_time + serialization_duration
        arrival_time == finish_serialization_time + PropagationTime
    IN [w EXCEPT
          !.ttime[link] = serialization_duration,
          !.bytes[link] = Msg(w, id).size_bytes,
          !.nat[link][link_index + 1] = finish_serialization_time,
          !.s = schedule_event(w.s, now, arrival_time - now,
                               DeliverAction(dst, id)),
          !.tx = Append(@, [link |-> link, link_index |-> link_index,
                            sender |-> sender, dst |-> dst, id |-> id,
                            lost |-> Msg(w, id).lost, now |-> now,
                            start |-> actual_start_time,
                            finish |-> finish_serialization_time,
                            arrival |-> arrival_time, seq |-> w.s.n])]

\* Mutant: the delivery is scheduled for the end of serialization, without
\* the propagation time.
transmit_arrivesAtFinish(w, link, id, sender, now) ==
    IF ~transmit_ok(link, sender) THEN Raise(w, "AssertionError")
    ELSE
    LET dst == IF sender = LinkEnds[link][1] THEN LinkEnds[link][2]
               ELSE LinkEnds[link][1]
        link_index == link_index_of(link, sender)
        actual_start_time == Max(now, w.nat[link][link_index + 1])
        serialization_duration ==
            serialization_duration_of(Msg(w, id).size_bytes)
        finish_serialization_time == actual_start_time + serialization_duration
        arrival_time == finish_serialization_time
    IN [w EXCEPT
          !.ttime[link] = @ + serialization_duration,
          !.bytes[link] = @ + Msg(w, id).size_bytes,
          !.nat[link][link_index + 1] = finish_serialization_time,
          !.s = schedule_event(w.s, now, arrival_time - now,
                               DeliverAction(dst, id)),
          !.tx = Append(@, [link |-> link, link_index |-> link_index,
                            sender |-> sender, dst |-> dst, id |-> id,
                            lost |-> Msg(w, id).lost, now |-> now,
                            start |-> actual_start_time,
                            finish |-> finish_serialization_time,
                            arrival |-> arrival_time, seq |-> w.s.n])]

\* Link.transmit(message, sender) at simulated time `now`. The history record
\* keeps what the call computed, the message's lost flag at the call, and
\* seq, the sequence number of the delivery event it scheduled.
transmit(w, link, id, sender, now) ==
    IF ~transmit_ok(link, sender) THEN Raise(w, "AssertionError")
    ELSE
    LET dst == IF sender = LinkEnds[link][1] THEN LinkEnds[link][2]
               ELSE LinkEnds[link][1]
        link_index == link_index_of(link, sender)
        actual_start_time == Max(now, w.nat[link][link_index + 1])
        serialization_duration ==
            serialization_duration_of(Msg(w, id).size_bytes)
        finish_serialization_time == actual_start_time + serialization_duration
        arrival_time == finish_serialization_time + PropagationTime
    IN [w EXCEPT
          !.ttime[link] = @ + serialization_duration,
          !.bytes[link] = @ + Msg(w, id).size_bytes,
          !.nat[link][link_index + 1] = finish_serialization_time,
          !.s = schedule_event(w.s, now, arrival_time - now,
                               DeliverAction(dst, id)),
          !.tx = Append(@, [link |-> link, link_index |-> link_index,
                            sender |-> sender, dst |-> dst, id |-> id,
                            lost |-> Msg(w, id).lost, now |-> now,
                            start |-> actual_start_time,
                            finish |-> finish_serialization_time,
                            arrival |-> arrival_time, seq |-> w.s.n])]

\* -------------------------------------------------------- NetworkNode
\* handle_expired_message, and the other places that set message.dropped.
drop(w, id) == [w EXCEPT !.msgs[id + 1].dropped = TRUE]

\* Mutant: every port on a healthy link is a candidate, used or not.
lost_ports_usedToo(w, node, id) ==
    {port_id \in 1 .. Len(ports_to_links[node]) :
        ~failed[ports_to_links[node][port_id]]}

\* The ports handle_lost_message may take: not yet used by this message at
\* this node, and attached to a link that is not failed.
lost_ports(w, node, id) ==
    {port_id \in 1 .. Len(ports_to_links[node]) :
        /\ id \notin w.seen[node][port_id]
        /\ ~failed[ports_to_links[node][port_id]]}

\* handle_lost_message(message); pick is the port random.sample draws.
\* relevant_ports is a set: random.sample(relevant_ports, 1) draws from it on
\* an interpreter that still converts a set population (before Python 3.11)
\* and raises TypeError on one that requires a sequence.
handle_lost_message(w, node, id, now, pick) ==
    LET relevant_ports == lost_ports(w, node, id)
    IN IF relevant_ports # {}
       THEN IF ~sample_accepts_set THEN Raise(w, "TypeError")
            ELSE LET arbitrary_port_id ==
                         IF pick \in relevant_ports THEN pick
                         ELSE CHOOSE port_id \in relevant_ports : TRUE
                 IN transmit([w EXCEPT !.seen[node][arbitrary_port_id] = @ \cup {id},
                                       !.drawn = relevant_ports],
                             ports_to_links[node][arbitrary_port_id], id, node, now)
       ELSE drop(w, id)

\* The (port_id, prefix_len) pairs of the table entries whose prefix contains
\* dst_ip, in table order.
RECURSIVE relevant_ports_of(_, _)
relevant_ports_of(table, dst_ip) ==
    IF table = <<>> THEN <<>>
    ELSE Only({IF contains(prefix, dst_ip)
               THEN [i \in 1 .. Len(Head(table).ports) |->
                        <<Head(table).ports[i], prefix.prefix_len>>]
               ELSE <<>> : prefix \in {parsed_prefix[Head(table).prefix]}})
         \o relevant_ports_of(Tail(table), dst_ip)

\* Mutant: the ports of the shortest matching prefix.
best_masked_ports_shortest(relevant_ports) ==
    Only({SelectSeq(relevant_ports, LAMBDA p : p[2] = shortest_mask_len) :
             shortest_mask_len \in
                {CHOOSE n \in {relevant_ports[i][2] : i \in 1 .. Len(relevant_ports)} :
                    \A i \in 1 .. Len(relevant_ports) : relevant_ports[i][2] >= n}})

\* relevant_ports.sort(key=prefix_len, reverse=True) is stable, so the ports
\* of the longest matching prefix keep their table order.
best_masked_ports(relevant_ports) ==
    Only({SelectSeq(relevant_ports, LAMBDA p : p[2] = longest_mask_len) :
             longest_mask_len \in
                {CHOOSE n \in {relevant_ports[i][2] : i \in 1 .. Len(relevant_ports)} :
                    \A i \in 1 .. Len(relevant_ports) : relevant_ports[i][2] <= n}})

\* Mutant: the ECMP index also depends on the message id.
port_index_of_byId(m, n) == (flow_hash[m.five_tuple] + m.id) % n

\* port_index = hash(message.five_tuple) % len(best_masked_ports)
port_index_of(m, n) == flow_hash[m.five_tuple] % n

\* Mutant: the selected port is used again although the message has passed
\* through it.
forward_to_best_again(w, node, id, now, pick, best) ==
    LET port_index == port_index_of(Msg(w, id), Len(best))
        best_port_id == best[port_index + 1][1]
    IN transmit([w EXCEPT !.seen[node][best_port_id] = @ \cup {id}],
                ports_to_links[node][best_port_id], id, node, now)

\* handle_regular_message(message), once best_masked_ports is known: the
\* ECMP choice by hash(five_tuple), the loop test, the transmission.
forward_to_best(w, node, id, now, pick, best) ==
    LET port_index == port_index_of(Msg(w, id), Len(best))
        best_port_id == best[port_index + 1][1]
    IN IF id \in w.seen[node][best_port_id]
       THEN handle_lost_message(
                [w EXCEPT !.msgs[id + 1].lost = TRUE], node, id, now, pick)
       ELSE transmit(
                [w EXCEPT !.seen[node][best_port_id] = @ \cup {id}],
                ports_to_links[node][best_port_id], id, node, now)

\* Mutant: with no matching prefix the message is sent through port 1.
handle_regular_message_sendOnMiss(w, node, id, now, pick) ==
    Only({IF relevant_ports # <<>>
          THEN Only({forward_to_best(w, node, id, now, pick, best) :
                        best \in {best_masked_ports(relevant_ports)}})
          ELSE transmit(w, ports_to_links[node][1], id, node, now) :
             relevant_ports \in
                {Only({relevant_ports_of(ip_forward_table[node], dst_ip) :
                          dst_ip \in {Msg(w, id).five_tuple.dst_ip}})}})

\* handle_regular_message(message)
handle_regular_message(w, node, id, now, pick) ==
    Only({IF relevant_ports # <<>>
          THEN Only({forward_to_best(w, node, id, now, pick, best) :
                        best \in {best_masked_ports(relevant_ports)}})
          ELSE drop(w, id) :
             relevant_ports \in
                {Only({relevant_ports_of(ip_forward_table[node], dst_ip) :
                          dst_ip \in {Msg(w, id).five_tuple.dst_ip}})}})

\* Mutant: an expired message is marked dropped and forwarded all the same.
_internal_send_ip_dropAndForward(w, node, id, now, pick) ==
    IF Msg(w, id).dropped THEN Raise(w, "AssertionError")
    ELSE IF is_expired(Msg(w, id), now, max_path)
         THEN handle_regular_message(drop(w, id), node, id, now, pick)
    ELSE IF Msg(w, id).lost THEN handle_lost_message(w, node, id, now, pick)
    ELSE handle_regular_message(w, node, id, now, pick)

\* Mutant: lost mode is looked at before expiry.
_internal_send_ip_lostFirst(w, node, id, now, pick) ==
    IF Msg(w, id).dropped THEN Raise(w, "AssertionError")
    ELSE IF Msg(w, id).lost THEN handle_lost_message(w, node, id, now, pick)
    ELSE IF is_expired(Msg(w, id), now, max_path) THEN drop(w, id)
    ELSE handle_regular_message(w, node, id, now, pick)

\* _internal_send_ip(message)
_internal_send_ip(w, node, id, now, pick) ==
    LET m == Msg(w, id)
    IN IF m.dropped THEN Raise(w, "AssertionError")
       ELSE IF is_expired(m, now, max_path) THEN drop(w, id)
       ELSE IF m.lost THEN handle_lost_message(w, node, id, now, pick)
       ELSE handle_regular_message(w, node, id, now, pick)

\* --------------------------------------------------------------- Node
\* Mutant: the handle_message event is scheduled one time unit later.
post_handledLater(w, node, id, now) ==
    [w EXCEPT !.inbox[node] = Append(@, id),
              !.s = schedule_event(w.s, now, 1, HandleAction(node)),
              !.log = Append(@, [op |-> "post", node |-> node, id |-> id,
                                 at |-> now])]

\* Node.post(message): the message joins the inbox and a handle_message
\* event is scheduled at the current time.
post(w, node, id, now) ==
    [w EXCEPT !.inbox[node] = Append(@, id),
              !.s = schedule_event(w.s, now, 0, HandleAction(node)),
              !.log = Append(@, [op |-> "post", node |-> node, id |-> id,
                                 at |-> now])]

\* Host.send_to_ip(dst_ip, payload, size_bytes): a new message with the next
\* id and path_length 1 joins the ledger and is forwarded by the host.
send_to_ip(w, host, dst_ip, size_bytes, now, pick) ==
    LET id == Len(w.msgs)
        m == [Message(id, FiveTuple(HostIp[host], dst_ip), size_bytes, now,
                      message_ttl)
                EXCEPT !.path_length = 1]
    IN _internal_send_ip([w EXCEPT !.msgs = Append(@, m)], host, id, now, pick)

\* Mutant: the host marks the message delivered and forwards it again.
Host_on_message_forwards(w, node, id, now) ==
    _internal_send_ip([w EXCEPT !.msgs[id + 1].path_length = @ + 1,
                                !.msgs[id + 1].delivered = TRUE,
                                !.msgs[id + 1].arrival_time = now,
                                !.by = (id :> node) @@ @],
                      node, id, now, 0)

\* Host.on_message(message): the message is delivered here; no forwarding.
Host_on_message(w, node, id, now) ==
    [w EXCEPT !.msgs[id + 1].path_length = @ + 1,
              !.msgs[id + 1].delivered = TRUE,
              !.msgs[id + 1].arrival_time = now,
              !.by = (id :> node) @@ @]

\* Switch.on_message(message): one more node on the path, then forward.
Switch_on_message(w, node, id, now, pick) ==
    _internal_send_ip([w EXCEPT !.msgs[id + 1].path_length = @ + 1],
                     node, id, now, pick)

on_message(w, node, id, now, pick) ==
    IF node \in Hosts THEN Host_on_message(w, node, id, now)
    ELSE Switch_on_message(w, node, id, now, pick)

\* Mutant: the newest message of the inbox is handled first.
handle_message_newestFirst(w, node, now, pick) ==
    IF w.inbox[node] = <<>> THEN w
    ELSE Only({IF w2.err # "" THEN w2
               ELSE IF w2.inbox[node] # <<>>
                    THEN [w2 EXCEPT !.s = schedule_event(w2.s, now, 0,
                                                         HandleAction(node))]
                    ELSE w2 :
                  w2 \in {on_message(
                             [w EXCEPT !.inbox[node] = SubSeq(@, 1, Len(@) - 1),
                                       !.log = Append(@, [op |-> "on_message",
                                                  node |-> node,
                                                  id |-> w.inbox[node][Len(w.inbox[node])],
                                                  at |-> now])],
                             node, w.inbox[node][Len(w.inbox[node])], now, pick)}})

\* Node.handle_message(): pop the head of the inbox, handle it, and schedule
\* another handle_message when messages remain. An exception raised by
\* on_message leaves the method before the rescheduling.
handle_message(w, node, now, pick) ==
    IF w.inbox[node] = <<>> THEN w
    ELSE Only({IF w2.err # "" THEN w2
               ELSE IF w2.inbox[node] # <<>>
                    THEN [w2 EXCEPT !.s = schedule_event(w2.s, now, 0,
                                                         HandleAction(node))]
                    ELSE w2 :
                  w2 \in {on_message(
                             [w EXCEPT !.inbox[node] = Tail(@),
                                       !.log = Append(@, [op |-> "on_message",
                                                  node |-> node,
                                                  id |-> Head(w.inbox[node]),
                                                  at |-> now])],
                             node, Head(w.inbox[node]), now, pick)}})

\* event.action() for the three actions the network schedules.
run_net_action(w, now, action, pick) ==
    CASE action.kind = "send" ->
            send_to_ip(w, action.host, action.dst_ip, action.size_bytes,
                       now, pick)
      [] action.kind = "deliver" -> post(w, action.node, action.id, now)
      [] action.kind = "handle" -> handle_message(w, action.node, now, pick)

\* ------------------------------------------- the network as a program
MaxMessages == 2
MaxFailed == 1
MaxSize == 1
MaxSendDelay == 0
ShortTtl == 7
HashRange == 2

\* Addresses a host may send to: the other host, an address of 10.0.0.0/8
\* that no host has, and an address no table covers.
Destinations(host) ==
    {HostIp[h] : h \in Hosts \ {host}}
        \cup {IPAddress(10, 9, 9, 9), IPAddress(11, 0, 0, 1)}
Sizes == 1 .. MaxSize
Ttls == {ShortTtl, DefaultTtl}
SendDelays == 0 .. MaxSendDelay
MaxPorts == 3

\* create_link marks some links failed before any route is installed; the
\* tables are then filled by the set_ip_routing calls.
NetInit ==
    /\ SimulatorInit
    /\ NoBuild
    /\ NoIp
    /\ topology \in {"diamond", "hsh"}
    /\ transmitted = <<>>
    /\ delivered_by = <<>>
    /\ node_log = <<>>
    /\ failed \in {fl \in [Links -> BOOLEAN] :
                     Cardinality({l \in Links : fl[l]}) <= MaxFailed}
    /\ ip_forward_table = InstallRoutes(Len(Routes), failed)
    /\ port_to_messages_passed =
           [n \in Nodes |-> [port_id \in 1 .. Len(ports_to_links[n]) |-> {}]]
    /\ inbox = [n \in Nodes |-> <<>>]
    /\ next_available_time = [l \in Links |-> <<0, 0>>]
    /\ accumulated_transmitting_time = [l \in Links |-> 0]
    /\ accumulated_bytes_transmitted = [l \in Links |-> 0]
    /\ messages = <<>>
    /\ flow_hash = <<>>
    /\ sample_accepts_set \in BOOLEAN
    /\ message_ttl \in Ttls

\* The send events still waiting in the queue.
PendingSends(q) == Cardinality({i \in 1 .. Len(q) : q[i].action.kind = "send"})

\* The scenario schedules host.send_to_ip(dst_ip, ...) after `delay`; h is what
\* hash() gives for the five-tuple of the message, fixed once per five-tuple.
ScheduleSend(host, dst_ip, size_bytes, delay, h) ==
    /\ pc = "idle"
    /\ Len(messages) + PendingSends(event_queue) < MaxMessages
    /\ LET five_tuple == FiveTuple(HostIp[host], dst_ip)
       IN IF five_tuple \in DOMAIN flow_hash
          THEN h = 0 /\ UNCHANGED flow_hash
          ELSE flow_hash' = (five_tuple :> h) @@ flow_hash
    /\ LET s == schedule_event(Sched(event_queue, seq_counter, created, 0),
                               current_time, delay,
                               SendAction(host, dst_ip, size_bytes))
       IN /\ event_queue' = s.q
          /\ seq_counter' = s.n
          /\ created' = s.c
    /\ pc' = "idle"
    /\ result' = "ok"
    /\ left_over' = LeftOverNow
    /\ UNCHANGED <<current_time, end_time, until, executed, runs, run_from,
                   run_t0>>
    /\ UNCHANGED <<failed, ip_forward_table, port_to_messages_passed, inbox,
                   next_available_time, accumulated_transmitting_time,
                   accumulated_bytes_transmitted, messages, sample_accepts_set,
                   message_ttl, topology, transmitted, delivered_by, node_log>>
    /\ UNCHANGED <<buildvars, ipvars>>

\* One iteration of run's loop when the actions are the network's. An
\* exception raised by the action leaves run() through the loop.
NetRunStep ==
    /\ pc = "running"
    /\ event_queue # <<>>
    /\ \E event \in {dequeue_item(event_queue)},
          rest \in {dequeue_rest(event_queue)} :
          IF beyond_until(event, until)
          THEN /\ event_queue' = enqueue(rest, event)
               /\ current_time' = until
               /\ pc' = "returned"
               /\ left_over' = {event_queue'[i].seq : i \in 1 .. Len(event_queue')}
               /\ UNCHANGED <<seq_counter, created, executed>>
               /\ UNCHANGED <<port_to_messages_passed, inbox, next_available_time,
                              accumulated_transmitting_time,
                              accumulated_bytes_transmitted, messages,
                              transmitted, delivered_by, node_log>>
          ELSE \E pick \in 0 .. MaxPorts :
               \E w0 \in {World(Sched(rest, seq_counter, created, runs))} :
               \E w \in {run_net_action(w0, event.time, event.action, pick)} :
                  /\ IF w.drawn = {} THEN pick = 0 ELSE pick \in w.drawn
                  /\ current_time' = event.time
                  /\ event_queue' = w.s.q
                  /\ seq_counter' = w.s.n
                  /\ created' = w.s.c
                  /\ executed' = Append(executed,
                                        [seq |-> event.seq, time |-> event.time,
                                         at |-> current_time', run |-> runs])
                  /\ messages' = w.msgs
                  /\ inbox' = w.inbox
                  /\ port_to_messages_passed' = w.seen
                  /\ next_available_time' = w.nat
                  /\ accumulated_transmitting_time' = w.ttime
                  /\ accumulated_bytes_transmitted' = w.bytes
                  /\ transmitted' = w.tx
                  /\ delivered_by' = w.by
                  /\ node_log' = w.log
                  /\ pc' = IF w.err # "" THEN "raised" ELSE pc
                  /\ UNCHANGED left_over
    /\ UNCHANGED <<end_time, until, result, runs, run_from, run_t0>>
    /\ UNCHANGED <<failed, ip_forward_table, flow_hash, sample_accepts_set,
                   message_ttl, topology>>
    /\ UNCHANGED <<buildvars, ipvars>>

NetNext ==
    \/ \E host \in Hosts, size_bytes \in Sizes, delay \in SendDelays,
          h \in 0 .. HashRange - 1 :
          \E dst_ip \in Destinations(host) :
          ScheduleSend(host, dst_ip, size_bytes, delay, h)
    \/ RunCall(None)
    \/ NetRunStep
    \/ RunExit

NetSpec == NetInit /\ [][NetNext]_vars

\* run() is one uninterrupted loop: an iteration that is possible is taken.
NetFairSpec == NetSpec /\ WF_vars(NetRunStep) /\ WF_vars(RunExit)

\* -------------------------------------------------- the run statistics
\* get_results: the three counts taken over the ledger.
messages_delivered_straight_count ==
    Cardinality({i \in 1 .. Len(messages) :
                    messages[i].delivered /\ ~messages[i].lost})
messages_delivered_although_lost_count ==
    Cardinality({i \in 1 .. Len(messages) :
                    messages[i].delivered /\ messages[i].lost})
dropped_message_count ==
    Cardinality({i \in 1 .. Len(messages) : messages[i].dropped})

\* Every message of the ledger is delivered or dropped, never both, and the
\* three counts add up to the number of messages.
AllSettled ==
    /\ \A i \in 1 .. Len(messages) : messages[i].delivered # messages[i].dropped
    /\ messages_delivered_straight_count
         + messages_delivered_although_lost_count
         + dropped_message_count = Len(messages)

\* C10: forwarding terminates: a run() that was called returns, and when it
\* has returned every message of the ledger is exactly one of delivered or
\* dropped, so that the delivered-straight, delivered-while-lost and dropped
\* counts add up to the number of messages.
C10_ForwardingTerminates ==
    /\ (pc = "running") ~> (pc = "returned")
    /\ [](pc = "returned" => AllSettled)

\* The same statement for the interpreters on which random.sample draws from
\* a set.
C10_TerminatesWhenSampleDraws ==
    sample_accepts_set =>
        /\ (pc = "running") ~> (pc = "returned")
        /\ [](pc = "returned" => AllSettled)

\* A run that returned with one message delivered while lost and another
\* dropped.
C10_SeenDeliveredLost ==
    /\ pc = "returned"
    /\ \E i \in 1 .. Len(messages) : messages[i].delivered /\ messages[i].lost
    /\ \E i \in 1 .. Len(messages) : messages[i].dropped

\* run() left by the TypeError of random.sample, a message still in flight.
C10_RunRaised ==
    /\ pc = "raised"
    /\ \E i \in 1 .. Len(messages) :
          messages[i].lost /\ ~messages[i].delivered /\ ~messages[i].dropped

\* ------------------------------------------------- history of a message
Ids == 0 .. Len(messages) - 1

\* The transmissions of message id, in call order.
TransmissionsOf(id) == SelectSeq(transmitted, LAMBDA t : t.id = id)

C12_DeliveredOnlyByHosts ==
    \A i \in 1 .. Len(messages) :
        messages[i].delivered =>
            (i - 1) \in DOMAIN delivered_by /\ delivered_by[i - 1] \in Hosts

C13_DeliveredWithinMaxPathPlusOne ==
    \A i \in 1 .. Len(messages) :
        messages[i].delivered => messages[i].path_length <= max_path + 1

\* C13 for messages that never entered lost mode: in the two topologies a
\* loop-free route is shorter than max_path, so only a lost message gets past it.
C13_StraightDeliveredWithinMaxPath ==
    \A i \in 1 .. Len(messages) :
        messages[i].delivered /\ ~messages[i].lost =>
            messages[i].path_length <= max_path

\* ------------------------------------------------------------ forwarding
\* The port of node that link hangs on.
PortOf(node, link) ==
    CHOOSE p \in DOMAIN ports_to_links[node] : ports_to_links[node][p] = link

\* The ECMP group of node for dst_ip: the ports of the longest matching
\* prefixes, <<>> when no prefix matches.
EcmpGroup(node, dst_ip) ==
    Only({IF relevant_ports = <<>> THEN <<>>
          ELSE best_masked_ports(relevant_ports) :
             relevant_ports \in {relevant_ports_of(ip_forward_table[node], dst_ip)}})

MatchingEntries(node, dst_ip) ==
    {i \in 1 .. Len(ip_forward_table[node]) :
        contains(parsed_prefix[ip_forward_table[node][i].prefix], dst_ip)}

\* Entry i of node's table lists port_id.
Lists(node, i, port_id) ==
    \E k \in 1 .. Len(ip_forward_table[node][i].ports) :
        ip_forward_table[node][i].ports[k] = port_id

PrefixLenOf(node, i) == parsed_prefix[ip_forward_table[node][i].prefix].prefix_len

\* C15: the port through which normal routing sent a message is listed by an
\* entry whose prefix contains dst_ip and whose prefix length is the greatest
\* among the entries that contain dst_ip.
C15_LongestPrefixMatch ==
    \A a \in 1 .. Len(transmitted) :
        ~transmitted[a].lost =>
            LET node == transmitted[a].sender
                dst_ip == messages[transmitted[a].id + 1].five_tuple.dst_ip
                port_id == PortOf(node, transmitted[a].link)
            IN \E i \in MatchingEntries(node, dst_ip) :
                  /\ Lists(node, i, port_id)
                  /\ \A j \in MatchingEntries(node, dst_ip) :
                        PrefixLenOf(node, j) <= PrefixLenOf(node, i)

\* Normal routing sent a message from a node that also has a shorter matching
\* prefix, whose ports are all different from the one selected.
C15_Witness ==
    \E a \in 1 .. Len(transmitted) :
        /\ ~transmitted[a].lost
        /\ LET node == transmitted[a].sender
               dst_ip == messages[transmitted[a].id + 1].five_tuple.dst_ip
               port_id == PortOf(node, transmitted[a].link)
           IN \E i, j \in MatchingEntries(node, dst_ip) :
                 /\ Lists(node, i, port_id)
                 /\ PrefixLenOf(node, j) < PrefixLenOf(node, i)
                 /\ ~Lists(node, j, port_id)

\* ------------------------------------------------- failed links and routes
\* The set_ip_routing calls whose port hangs on a failed link.
RoutesOverFailedLinks ==
    {k \in 1 .. Len(Routes) :
        failed[ports_to_links[Routes[k].node][Routes[k].port]]}

\* C16: after the topology is built no entry of any node's forwarding table
\* lists a port whose link is failed; a set_ip_routing call on such a port
\* leaves the tables as they were, and no call meets an unconnected port, the
\* one condition under which set_ip_routing raises.
C16_NoRouteOverFailedLink ==
    /\ \A n \in Nodes : \A i \in 1 .. Len(ip_forward_table[n]) :
          \A k \in 1 .. Len(ip_forward_table[n][i].ports) :
              ~failed[ports_to_links[n][ip_forward_table[n][i].ports[k]]]
    /\ \A k \in RoutesOverFailedLinks :
          InstallRoutes(k, failed) = InstallRoutes(k - 1, failed)
    /\ \A k \in 1 .. Len(Routes) :
          Routes[k].port \in DOMAIN ports_to_links[Routes[k].node]

\* A topology built with a failed link that a set_ip_routing call named, and
\* a message forwarded over the routes that were installed.
C16_Witness ==
    /\ RoutesOverFailedLinks # {}
    /\ \E n \in Nodes : ip_forward_table[n] # <<>>
    /\ transmitted # <<>>

\* ------------------------------------------------------------ route miss
\* The state as the forwarding code sees it.
Here == World(Sched(event_queue, seq_counter, created, runs))

\* Message id is not dropped, not lost and not expired, and no prefix of
\* node's table contains its dst_ip.
RouteMiss(node, id) ==
    /\ ~messages[id + 1].dropped
    /\ ~messages[id + 1].lost
    /\ ~is_expired(messages[id + 1], current_time, max_path)
    /\ MatchingEntries(node, messages[id + 1].five_tuple.dst_ip) = {}

\* C17: forwarding, at any node, a message that is not expired and not lost
\* and whose dst_ip no prefix of the node's table contains sets dropped and
\* does nothing else: no transmission, no event, no exception.
C17_RouteMissOnlyDrops ==
    \A node \in Nodes : \A id \in Ids :
        RouteMiss(node, id) =>
            \A pick \in 0 .. MaxPorts :
                LET w == _internal_send_ip(Here, node, id, current_time, pick)
                IN /\ w.msgs[id + 1].dropped
                   /\ w = [Here EXCEPT !.msgs[id + 1].dropped = TRUE]
                   /\ w.tx = transmitted
                   /\ w.s = Here.s
                   /\ w.err = ""

\* Messages that no table entry of the handling node matched were dropped in
\* the run, at the origin host and at a switch, never having been lost; the
\* first was never transmitted, and the run has not raised.
C17_Witness ==
    /\ pc # "raised"
    /\ \E id \in Ids :
          /\ messages[id + 1].dropped /\ ~messages[id + 1].lost
          /\ messages[id + 1].path_length = 1
          /\ \E h \in Hosts :
                /\ HostIp[h] = messages[id + 1].five_tuple.src_ip
                /\ MatchingEntries(h, messages[id + 1].five_tuple.dst_ip) = {}
          /\ TransmissionsOf(id) = <<>>
    /\ \E id \in Ids :
          /\ messages[id + 1].dropped /\ ~messages[id + 1].lost
          /\ messages[id + 1].path_length >= 2
          /\ ~is_expired(messages[id + 1], current_time, max_path)
          /\ LET tx == TransmissionsOf(id)
             IN /\ tx # <<>>
                /\ MatchingEntries(tx[Len(tx)].dst,
                                   messages[id + 1].five_tuple.dst_ip) = {}

\* ------------------------------------------------- one direction of a link
\* The transmissions made before the b-th in the same direction of its link.
EarlierSameDirection(b) ==
    {a \in 1 .. b - 1 :
        /\ transmitted[a].link = transmitted[b].link
        /\ transmitted[a].link_index = transmitted[b].link_index}

\* The finish time of the latest transmission before the b-th in its
\* direction, 0 (the initial next_available_time) when there is none.
PreviousFinish(b) ==
    IF EarlierSameDirection(b) = {} THEN 0
    ELSE transmitted[CHOOSE a \in EarlierSameDirection(b) :
                        \A c \in EarlierSameDirection(b) : c <= a].finish

\* Every transmission starts at max(now, previous finish), hence not before
\* the finish of any earlier transmission of its direction, and
\* next_available_time of a direction is the finish of its latest one.
SerializedPerDirection ==
    /\ \A b \in 1 .. Len(transmitted) :
          /\ transmitted[b].start = Max(transmitted[b].now, PreviousFinish(b))
          /\ transmitted[b].finish >= transmitted[b].start
          /\ \A a \in EarlierSameDirection(b) :
                transmitted[b].start >= transmitted[a].finish
    /\ \A l \in Links : \A i \in 0 .. 1 :
          \/ /\ next_available_time[l][i + 1] = 0
             /\ ~\E b \in 1 .. Len(transmitted) :
                    transmitted[b].link = l /\ transmitted[b].link_index = i
          \/ \E b \in 1 .. Len(transmitted) :
                /\ transmitted[b].link = l /\ transmitted[b].link_index = i
                /\ \A c \in b + 1 .. Len(transmitted) : b \notin EarlierSameDirection(c)
                /\ next_available_time[l][i + 1] = transmitted[b].finish

NextAvailableTimeGrows ==
    \A l \in Links : \A i \in 1 .. 2 :
        next_available_time'[l][i] >= next_available_time[l][i]

\* C18: in each direction of a link next_available_time never decreases, and
\* every transmission starts at max(now, previous finish), so no earlier than
\* the finish of every earlier transmission of that direction: the
\* serialization intervals of one direction do not overlap.
C18_DirectionSerializes ==
    []SerializedPerDirection /\ [][NextAvailableTimeGrows]_vars

\* A transmission called while the previous one of its direction was still
\* being serialized, and pushed to that one's finish.
C18_Witness ==
    \E b \in 1 .. Len(transmitted) :
        /\ EarlierSameDirection(b) # {}
        /\ transmitted[b].now < PreviousFinish(b)
        /\ transmitted[b].start = PreviousFinish(b)
        /\ transmitted[b].finish > transmitted[b].start

\* The delivery event scheduled by the a-th transmission has been executed,
\* i.e. the message was posted to the destination node, as the k-th event.
PostedAt(a, k) ==
    k \in 1 .. Len(executed) /\ executed[k].seq = transmitted[a].seq

\* C19: messages of positive size transmitted in the same direction of a link
\* are posted to the destination node in the order of their transmit calls.
C19_PerDirectionFifo ==
    \A b \in 1 .. Len(transmitted) : \A a \in EarlierSameDirection(b) :
        /\ messages[transmitted[a].id + 1].size_bytes > 0
        /\ messages[transmitted[b].id + 1].size_bytes > 0
        => /\ transmitted[a].arrival < transmitted[b].arrival
           /\ \A k \in 1 .. Len(executed) :
                 PostedAt(b, k) => \E j \in 1 .. k - 1 : PostedAt(a, j)

\* Two messages in flight together in one direction of a link, both posted,
\* while the link also carried a message the other way or another link was
\* transmitting in between.
C19_Witness ==
    \E b \in 1 .. Len(transmitted) : \E a \in EarlierSameDirection(b) :
        /\ transmitted[b].now < transmitted[a].arrival
        /\ \E j, k \in 1 .. Len(executed) : PostedAt(a, j) /\ PostedAt(b, k)
        /\ \E c \in 1 .. Len(transmitted) :
              /\ c \notin EarlierSameDirection(b) \cup {b}
              /\ transmitted[c].now <= transmitted[b].arrival
              /\ transmitted[c].arrival >= transmitted[a].now

\* ------------------------------------------------ the two directions
\* The places of a transmission's own and opposite direction in
\* next_available_time of its link, by the endpoint that called transmit.
OwnPlace(r) == IF r.sender = LinkEnds[r.link][1] THEN 1 ELSE 2
OppositePlace(r) == IF r.sender = LinkEnds[r.link][1] THEN 2 ELSE 1

\* The transmissions made before the b-th on its link by the same endpoint,
\* and by the other endpoint.
EarlierBySameSender(b) ==
    {a \in 1 .. b - 1 :
        /\ transmitted[a].link = transmitted[b].link
        /\ transmitted[a].sender = transmitted[b].sender}
EarlierByOtherSender(b) ==
    {a \in 1 .. b - 1 :
        /\ transmitted[a].link = transmitted[b].link
        /\ transmitted[a].sender # transmitted[b].sender}

\* The start and the arrival of every transmission are those computed from
\* the call time, the size and the earlier transmissions of the same
\* endpoint alone.
StartIgnoresOppositeDirection ==
    \A b \in 1 .. Len(transmitted) :
        LET r == transmitted[b]
            free == IF EarlierBySameSender(b) = {} THEN 0
                    ELSE transmitted[CHOOSE a \in EarlierBySameSender(b) :
                            \A c \in EarlierBySameSender(b) : c <= a].finish
            start == IF r.now >= free THEN r.now ELSE free
        IN /\ r.start = start
           /\ r.arrival = start + (messages[r.id + 1].size_bytes * 8) \div LinkBandwidth
                                + PropagationTime

\* A step that makes a transmission leaves next_available_time of the
\* opposite direction of that link, and of every other link, as it was.
TransmitLeavesOppositeDirection ==
    Len(transmitted') = Len(transmitted) + 1 =>
        LET r == transmitted'[Len(transmitted')]
        IN /\ next_available_time'[r.link][OppositePlace(r)]
                 = next_available_time[r.link][OppositePlace(r)]
           /\ next_available_time'[r.link][OwnPlace(r)] = r.finish
           /\ \A l \in Links \ {r.link} :
                 next_available_time'[l] = next_available_time[l]

\* C20: a transmit by one endpoint of a link leaves next_available_time of
\* the opposite direction unchanged, and its start and arrival times do not
\* depend on the transmissions made in the opposite direction.
C20_DirectionsIndependent ==
    []StartIgnoresOppositeDirection /\ [][TransmitLeavesOppositeDirection]_vars

\* A transmission called while the opposite direction of its link was still
\* serializing, which started at once all the same.
C20_Witness ==
    \E b \in 1 .. Len(transmitted) :
        /\ \E c \in EarlierByOtherSender(b) :
              transmitted[c].finish > transmitted[b].now
        /\ transmitted[b].start = transmitted[b].now
        /\ next_available_time[transmitted[b].link][OppositePlace(transmitted[b])]
              > transmitted[b].now

\* ------------------------------------------------------ link accounting
\* The sum of size_bytes, and of the serialization durations, of the first n
\* recorded transmissions that went over link l, either direction.
RECURSIVE BytesOver(_, _)
BytesOver(l, n) ==
    IF n = 0 THEN 0
    ELSE BytesOver(l, n - 1)
         + (IF transmitted[n].link = l
            THEN messages[transmitted[n].id + 1].size_bytes ELSE 0)

RECURSIVE DurationsOver(_, _)
DurationsOver(l, n) ==
    IF n = 0 THEN 0
    ELSE DurationsOver(l, n - 1)
         + (IF transmitted[n].link = l
            THEN transmitted[n].finish - transmitted[n].start ELSE 0)

\* C21: each link's accumulated_bytes_transmitted is the sum of size_bytes
\* over the transmit calls that succeeded on it, both directions, and
\* accumulated_transmitting_time the sum of their serialization durations; a
\* transmit call that fails (failed link, sender not an endpoint) changes
\* neither counter of any link.
C21_CountersAreSums ==
    /\ \A l \in Links :
          /\ accumulated_bytes_transmitted[l] = BytesOver(l, Len(transmitted))
          /\ accumulated_transmitting_time[l] = DurationsOver(l, Len(transmitted))
    /\ \A b \in 1 .. Len(transmitted) :
          transmitted[b].finish - transmitted[b].start
             = (messages[transmitted[b].id + 1].size_bytes * 8) \div LinkBandwidth
    /\ \A l \in Links : \A sender \in Nodes : \A id \in Ids :
          ~transmit_ok(l, sender) =>
              LET w == transmit(Here, l, id, sender, current_time)
              IN /\ w.err # ""
                 /\ w.bytes = accumulated_bytes_transmitted
                 /\ w.ttime = accumulated_transmitting_time

\* A link that carried messages in both directions, several in all, while
\* another link of the topology is failed.
C21_Witness ==
    /\ \E l \in Links : failed[l]
    /\ \E l \in Links :
          /\ BytesOver(l, Len(transmitted)) >= 2
          /\ accumulated_bytes_transmitted[l] >= 2
          /\ \E a, b \in 1 .. Len(transmitted) :
                /\ transmitted[a].link = l /\ transmitted[b].link = l
                /\ transmitted[a].sender # transmitted[b].sender

\* ================================================= wiring the topology
\* Mutant: a third connect takes the place of node2.
Link_connect_replaces(ends, node) ==
    IF ends[1] = NoNode THEN [ends |-> <<node, ends[2]>>, err |-> ""]
    ELSE [ends |-> <<ends[1], node>>, err |-> ""]

\* Link.connect(node) on the endpoints <<node1, node2>> of one link.
Link_connect(ends, node) ==
    IF ends[1] = NoNode THEN [ends |-> <<node, ends[2]>>, err |-> ""]
    ELSE IF ends[2] = NoNode THEN [ends |-> <<ends[1], node>>, err |-> ""]
    ELSE [ends |-> ends, err |-> "Exception"]

\* NetworkNode.connections_count()
connections_count(ports) == Cardinality(DOMAIN ports)

\* Mutant: an occupied port is bound again.
connect_rebinds(ports, ends, node, port_id, link) ==
    IF ~(port_id <= max_connections[node])
    THEN [ports |-> ports, ends |-> ends, err |-> "AssertionError"]
    ELSE IF ~(connections_count(ports) < max_connections[node])
    THEN [ports |-> ports, ends |-> ends, err |-> "AssertionError"]
    ELSE Only({[ports |-> (port_id :> link) @@ ports, ends |-> r.ends,
                err |-> r.err] : r \in {Link_connect(ends, node)}})

\* NetworkNode.connect(port_id, link) on the node's ports_to_links and the
\* link's endpoints: three assertions, the port is bound, then link.connect,
\* whose exception leaves the port bound.
connect(ports, ends, node, port_id, link) ==
    IF port_id \in DOMAIN ports
    THEN [ports |-> ports, ends |-> ends, err |-> "AssertionError"]
    ELSE IF ~(port_id <= max_connections[node])
    THEN [ports |-> ports, ends |-> ends, err |-> "AssertionError"]
    ELSE IF ~(connections_count(ports) < max_connections[node])
    THEN [ports |-> ports, ends |-> ends, err |-> "AssertionError"]
    ELSE Only({[ports |-> (port_id :> link) @@ ports, ends |-> r.ends,
                err |-> r.err] : r \in {Link_connect(ends, node)}})

\* NetworkNode.assert_correctly_full(): TRUE when no assertion fails.
assert_correctly_full(ports, node) ==
    /\ connections_count(ports) = max_connections[node]
    /\ \A port \in 1 .. max_connections[node] : port \in DOMAIN ports

\* Bounds of the wiring runs: the number of calls, and the port ids tried.
\* The topologies number ports from 1 ("port_id starts from 1"); connect
\* takes any int, so 0 is tried too, and one id beyond every
\* max_connections.
MaxCalls == 4
MaxPortId == 3
PortIds == 0 .. MaxPortId

Call(op, node, port_id, link, outcome) ==
    [op |-> op, node |-> node, port_id |-> port_id, link |-> link,
     outcome |-> outcome]

\* The simulator, the nodes and the links of hsh are created, with every
\* link's failed flag drawn; nothing is connected. One message exists to be
\* handed to Link.transmit.
BuildInit ==
    /\ SimulatorInit
    /\ topology = "building"
    /\ failed \in [Links -> BOOLEAN]
    /\ ip_forward_table = [n \in Nodes |-> <<>>]
    /\ port_to_messages_passed = [n \in Nodes |-> <<>>]
    /\ inbox = [n \in Nodes |-> <<>>]
    /\ next_available_time = [l \in Links |-> <<0, 0>>]
    /\ accumulated_transmitting_time = [l \in Links |-> 0]
    /\ accumulated_bytes_transmitted = [l \in Links |-> 0]
    /\ messages = <<[Message(0, FiveTuple(HostIp["Host1"], HostIp["Host2"]),
                             1, 0, DefaultTtl) EXCEPT !.path_length = 1]>>
    /\ flow_hash = <<>>
    /\ sample_accepts_set = TRUE
    /\ message_ttl = DefaultTtl
    /\ transmitted = <<>>
    /\ delivered_by = <<>>
    /\ node_log = <<>>
    /\ node1 = [l \in Links |-> NoNode]
    /\ node2 = [l \in Links |-> NoNode]
    /\ connected = [n \in Nodes |-> <<>>]
    /\ last_call = Call("none", NoNode, 0, NoNode, "ok")
    /\ calls = 0
    /\ NoIp

\* node.connect(port_id, link) is called.
Connect(node, port_id, link) ==
    /\ calls < MaxCalls
    /\ \E r \in {connect(connected[node], <<node1[link], node2[link]>>,
                         node, port_id, link)} :
          /\ connected' = [connected EXCEPT ![node] = r.ports]
          /\ node1' = [node1 EXCEPT ![link] = r.ends[1]]
          /\ node2' = [node2 EXCEPT ![link] = r.ends[2]]
          /\ last_call' = Call("connect", node, port_id, link,
                               IF r.err = "" THEN "ok" ELSE r.err)
    /\ calls' = calls + 1
    /\ UNCHANGED <<desvars, netvars, ipvars>>

\* node.assert_correctly_full() is called.
AssertCorrectlyFull(node) ==
    /\ calls < MaxCalls
    /\ last_call' = Call("assert_correctly_full", node, 0, NoNode,
                         IF assert_correctly_full(connected[node], node)
                         THEN "ok" ELSE "AssertionError")
    /\ calls' = calls + 1
    /\ UNCHANGED <<node1, node2, connected, desvars, netvars, ipvars>>

\* link.transmit(message, sender) is called with the message of the ledger.
Transmit(link, sender) ==
    /\ calls < MaxCalls
    /\ \E w \in {transmit(Here, link, 0, sender, current_time)} :
          /\ event_queue' = w.s.q
          /\ seq_counter' = w.s.n
          /\ created' = w.s.c
          /\ next_available_time' = w.nat
          /\ accumulated_transmitting_time' = w.ttime
          /\ accumulated_bytes_transmitted' = w.bytes
          /\ transmitted' = w.tx
          /\ last_call' = Call("transmit", sender, 0, link,
                               IF w.err = "" THEN "ok" ELSE w.err)
    /\ calls' = calls + 1
    /\ UNCHANGED <<current_time, end_time, pc, until, result, executed, runs,
                   run_from, run_t0, left_over>>
    /\ UNCHANGED <<failed, ip_forward_table, port_to_messages_passed, inbox,
                   messages, flow_hash, sample_accepts_set, message_ttl,
                   topology, delivered_by, node_log>>
    /\ UNCHANGED <<node1, node2, connected, ipvars>>

BuildNext ==
    \/ \E node \in Nodes, port_id \in PortIds, link \in Links :
          Connect(node, port_id, link)
    \/ \E node \in Nodes : AssertCorrectlyFull(node)
    \/ \E link \in Links, sender \in Nodes : Transmit(link, sender)

BuildSpec == BuildInit /\ [][BuildNext]_vars

\* ------------------------------------------------- transmit that fails
\* A reason for Link.transmit to fail: an endpoint of the link is unset, the
\* sender is not one of the two endpoints, or the link is failed.
MustFail(link, sender) ==
    \/ node1[link] = NoNode
    \/ node2[link] = NoNode
    \/ sender # node1[link] /\ sender # node2[link]
    \/ failed[link]

\* In this state every transmit that must fail raises and leaves the links
\* and the scheduler as they are, and every other transmit succeeds.
FailingTransmitChangesNothing ==
    \A link \in Links : \A sender \in Nodes :
        LET w == transmit(Here, link, 0, sender, current_time)
        IN IF MustFail(link, sender)
           THEN /\ w.err = "AssertionError"
                /\ w.nat = next_available_time
                /\ w.ttime = accumulated_transmitting_time
                /\ w.bytes = accumulated_bytes_transmitted
                /\ w.s.q = event_queue
                /\ w.s.n = seq_counter
           ELSE /\ w.err = ""
                /\ Len(w.s.q) = Len(event_queue) + 1

\* A transmit call that must fail is a step that reports the failure and
\* changes neither next_available_time, nor the counters, nor the queue.
FailedTransmitStep ==
    (calls' = calls + 1 /\ last_call'.op = "transmit"
        /\ MustFail(last_call'.link, last_call'.node)) =>
       /\ last_call'.outcome = "AssertionError"
       /\ next_available_time' = next_available_time
       /\ accumulated_transmitting_time' = accumulated_transmitting_time
       /\ accumulated_bytes_transmitted' = accumulated_bytes_transmitted
       /\ event_queue' = event_queue

\* C22: Link.transmit fails when an endpoint is unset, when the sender is not
\* one of the two endpoints, or when the link is failed, and then leaves
\* next_available_time, both counters and the event queue unchanged.
C22_FailedTransmitChangesNothing ==
    []FailingTransmitChangesNothing /\ [][FailedTransmitStep]_vars

\* The last call was a transmit by a node that is not an endpoint of a
\* healthy, fully connected link that has already carried the message, and
\* it failed; the other link still lacks an endpoint.
C22_Witness ==
    /\ last_call.op = "transmit" /\ last_call.outcome = "AssertionError"
    /\ node1[last_call.link] # NoNode /\ node2[last_call.link] # NoNode
    /\ ~failed[last_call.link]
    /\ last_call.node \notin {node1[last_call.link], node2[last_call.link]}
    /\ accumulated_bytes_transmitted[last_call.link] > 0
    /\ event_queue # <<>>
    /\ \E l \in Links : node2[l] = NoNode

\* ------------------------------------------------------- Link.connect
\* A step made by a connect call on link l by node n.
ConnectStepOn(l, n) ==
    /\ calls' = calls + 1
    /\ last_call'.op = "connect" /\ last_call'.link = l /\ last_call'.node = n

\* What a connect call does to the endpoints of its link: the node goes to
\* the first free slot; with both slots taken the call fails; a failing call
\* and any call on another link leave the endpoints as they are.
ConnectFillsFirstFreeSlot ==
    \A l \in Links : \A n \in Nodes :
        ConnectStepOn(l, n) =>
            /\ \A k \in Links \ {l} : node1'[k] = node1[k] /\ node2'[k] = node2[k]
            /\ last_call'.outcome = "ok" =>
                  IF node1[l] = NoNode
                  THEN node1'[l] = n /\ node2'[l] = node2[l]
                  ELSE /\ node2[l] = NoNode
                       /\ node2'[l] = n /\ node1'[l] = node1[l]
            /\ last_call'.outcome # "ok" =>
                  node1'[l] = node1[l] /\ node2'[l] = node2[l]
            /\ (node1[l] # NoNode /\ node2[l] # NoNode) =>
                  last_call'.outcome \in {"Exception", "AssertionError"}
            /\ last_call'.outcome = "Exception" =>
                  node1[l] # NoNode /\ node2[l] # NoNode

\* An endpoint that is set is never replaced, by any step.
EndpointsKept ==
    \A l \in Links :
        /\ node1[l] # NoNode => node1'[l] = node1[l]
        /\ node2[l] # NoNode => node2'[l] = node2[l]

\* node2 is set only after node1.
SlotsFilledInOrder ==
    \A l \in Links : node2[l] # NoNode => node1[l] # NoNode

\* C23: Link.connect puts the node in the first free endpoint slot, node1
\* then node2; a third connect fails and leaves both endpoints unchanged, so
\* an endpoint once set is never replaced.
C23_LinkHoldsTwoEndpoints ==
    /\ []SlotsFilledInOrder
    /\ [][ConnectFillsFirstFreeSlot /\ EndpointsKept]_vars

\* A third node's connect on a link that two other nodes occupy has just
\* raised, and the link still has its first two endpoints.
C23_Witness ==
    /\ last_call.op = "connect" /\ last_call.outcome = "Exception"
    /\ node1[last_call.link] # NoNode /\ node2[last_call.link] # NoNode
    /\ node1[last_call.link] # node2[last_call.link]
    /\ last_call.node \notin {node1[last_call.link], node2[last_call.link]}

\* ------------------------------------------------------- inbox order
\* The ids posted to node, and the ids its on_message was called with, in
\* call order.
PostedTo(node) ==
    LET posts == SelectSeq(node_log, LAMBDA r : r.op = "post" /\ r.node = node)
    IN [i \in 1 .. Len(posts) |-> posts[i].id]
HandledBy(node) ==
    LET calls_ == SelectSeq(node_log,
                            LAMBDA r : r.op = "on_message" /\ r.node = node)
    IN [i \in 1 .. Len(calls_) |-> calls_[i].id]

\* on_message has been called on the messages posted to the node, in the
\* order of the posts, and the rest waits in the inbox in that order.
HandledInPostOrder ==
    \A node \in Nodes : PostedTo(node) = HandledBy(node) \o inbox[node]

\* One event makes at most one on_message call.
OneMessagePerHandle ==
    Len(SelectSeq(node_log', LAMBDA r : r.op = "on_message"))
       <= Len(SelectSeq(node_log, LAMBDA r : r.op = "on_message")) + 1

MaxPrefixLen == 32

\* Octets the arguments are made of: both ends of the range, a value with
\* the top bit set and low bits too, and a value with scattered bits.
SampleOctets == {0, 10, 129, 255}
Addresses == {IPAddress(a, b, c, d) : a, b, c, d \in SampleOctets}

\* Addresses handed to to_int: those, and every value of each octet.
ConvertedAddresses ==
    Addresses \cup {[IPAddress(10, 1, 2, 3) EXCEPT ![k] = o] :
                       k \in 1 .. 4, o \in 0 .. 255}

\* Halves of the 32-bit integers handed to from_int.
SampleHalves == {0, 1, 255, 256, 2561, 32768, 33023, 65535}
Words ==
    {Word(high, low) : high, low \in SampleHalves}
        \cup {Word(Pow2(k), 0) : k \in 0 .. 15}
        \cup {Word(0, Pow2(k)) : k \in 0 .. 15}

\* ip with bit k flipped, bit 1 being the most significant of the 32.
Flip(ip, k) ==
    LET o == ((k - 1) \div 8) + 1
        w == Pow2(7 - ((k - 1) % 8))
    IN [ip EXCEPT ![o] = IF (@ \div w) % 2 = 1 THEN @ - w ELSE @ + w]

\* Addresses looked up in the prefix x/n: x itself, x with one bit changed
\* just inside and just outside of the first n bits and at both ends, and
\* three fixed addresses.
Lookups(x, n) ==
    {x, Flip(x, 1), Flip(x, 32), IPAddress(0, 0, 0, 0),
     IPAddress(255, 255, 255, 255), IPAddress(10, 1, 2, 3)}
        \cup {Flip(x, k) : k \in {n, n + 1} \cap (1 .. 32)}

IpInputs ==
    [kind : {"address"}, ip : ConvertedAddresses]
        \cup [kind : {"int"}, value : Words]
        \cup [kind : {"prefix"}, network : Addresses, prefix_len : 0 .. MaxPrefixLen]
        \cup UNION {[kind : {"lookup"}, x : {x}, n : {n}, ip : Lookups(x, n)] :
                       x \in Addresses, n \in 0 .. MaxPrefixLen}

IpInit ==
    /\ SimulatorInit
    /\ NoNetwork
    /\ NoBuild
    /\ ip_in \in IpInputs
    /\ ip_out = [op |-> "none"]

\* ip.to_int() and IPAddress.from_int of the result.
ToInt ==
    /\ ip_in.kind = "address"
    /\ ip_out.op = "none"
    /\ ip_out' = [op |-> "to_int", value |-> to_int(ip_in.ip),
                  back |-> from_int(to_int(ip_in.ip))]
    /\ UNCHANGED <<desvars, netvars, buildvars, ip_in>>

\* IPAddress.from_int(n) and to_int of the result.
FromInt ==
    /\ ip_in.kind = "int"
    /\ ip_out.op = "none"
    /\ ip_out' = [op |-> "from_int", ip |-> from_int(ip_in.value),
                  back |-> to_int(from_int(ip_in.value))]
    /\ UNCHANGED <<desvars, netvars, buildvars, ip_in>>

\* p = IPPrefix(network, prefix_len), str(p) and IPPrefix.from_string of the
\* result.
StrOfPrefix ==
    /\ ip_in.kind = "prefix"
    /\ ip_out.op = "none"
    /\ \E p \in {IPPrefix(ip_in.network, ip_in.prefix_len)} :
          ip_out' = [op |-> "str", p |-> p, text |-> IPPrefix_str(p),
                     back |-> from_string(IPPrefix_str(p))]
    /\ UNCHANGED <<desvars, netvars, buildvars, ip_in>>

\* p = IPPrefix.from_string("x/n"), p.contains(ip), str(p) and
\* IPPrefix.from_string of the result.
Lookup ==
    /\ ip_in.kind = "lookup"
    /\ ip_out.op = "none"
    /\ \E p \in {from_string(PrefixStr(ip_in.x[1], ip_in.x[2], ip_in.x[3],
                                       ip_in.x[4], ip_in.n))} :
          ip_out' = [op |-> "from_string", p |-> p,
                     contains |-> contains(p, ip_in.ip),
                     text |-> IPPrefix_str(p),
                     back |-> from_string(IPPrefix_str(p))]
    /\ UNCHANGED <<desvars, netvars, buildvars, ip_in>>

IpNext == ToInt \/ FromInt \/ StrOfPrefix \/ Lookup

IpSpec == IpInit /\ [][IpNext]_vars

\* -------------------------------------------------------------------- C25
\* C25: IPAddress.from_int(ip.to_int()) is ip again for every address ip
\* with octets in 0 .. 255, and IPAddress.from_int(n).to_int() is n again
\* for every integer n in 0 .. 2^32 - 1.
C25_IntRoundTrip ==
    /\ ip_out.op = "to_int" => ip_out.back = ip_in.ip
    /\ ip_out.op = "from_int" => ip_out.back = ip_in.value

\* An address with the top bit set has been converted: 255.129.0.10 became
\* 0xFF81000A, and came back.
C25_Witness ==
    /\ ip_out.op = "to_int"
    /\ ip_in.ip = IPAddress(255, 129, 0, 10)
    /\ ip_out.value = Word(65409, 10)
    /\ ip_out.back = IPAddress(255, 129, 0, 10)

\* -------------------------------------------------------------------- C26
\* Bit k of an address, bit 1 being the most significant of the 32.
Bit(ip, k) == (ip[((k - 1) \div 8) + 1] \div Pow2(7 - ((k - 1) % 8))) % 2

\* The network address of the prefix has no bit set after its first
\* prefix_len bits.
Normalized(p) == \A k \in (p.prefix_len + 1) .. 32 : Bit(p.network, k) = 0

\* C26: IPPrefix.from_string(str(p)) is p again for every IPPrefix value p
\* whose network is a valid address and whose prefix_len is in 0 .. 32,
\* whether p was returned by from_string or built by the constructor.
C26_PrefixStrRoundTrip ==
    ip_out.op \in {"str", "from_string"} => ip_out.back = ip_out.p

\* The same for the prefixes whose network address is masked to prefix_len
\* bits, which is what from_string returns.
C26_NormalizedPrefixStrRoundTrip ==
    /\ ip_out.op \in {"str", "from_string"} /\ Normalized(ip_out.p)
          => ip_out.back = ip_out.p
    /\ ip_out.op = "from_string" => Normalized(ip_out.p)

\* A prefix returned by from_string has been written and read back:
\* "129.255.10.0/9" gave 129.128.0.0/9, written "129.128.0.0/9".
C26_Witness ==
    /\ ip_out.op = "from_string"
    /\ ip_in.x = IPAddress(129, 255, 10, 0)
    /\ ip_in.n = 9
    /\ ip_out.p = IPPrefix(IPAddress(129, 128, 0, 0), 9)
    /\ ip_out.text = <<"1", "2", "9", ".", "1", "2", "8", ".", "0", ".", "0", "/", "9">>
    /\ ip_out.back = ip_out.p

\* IPPrefix(10.0.129.255, 24) has been written as "10.0.129.255/24" and read
\* back as 10.0.129.0/24.
C26_UnmaskedPrefixChanged ==
    /\ ip_out.op = "str"
    /\ ip_out.p = IPPrefix(IPAddress(10, 0, 129, 255), 24)
    /\ ip_out.back = IPPrefix(IPAddress(10, 0, 129, 0), 24)

\* -------------------------------------------------------------------- C27
\* The first n bits of the two addresses are the same.
TopBitsEqual(x, y, n) == \A k \in 1 .. n : Bit(x, k) = Bit(y, k)

\* C27: IPPrefix.from_string("X/N").contains(ip) is true exactly when the
\* top N bits of ip are those of X, for N in 0 .. 32; a /0 prefix contains
\* every address and a /32 prefix only its own.
C27_ContainsIffTopBitsEqual ==
    ip_out.op = "from_string" =>
        /\ ip_out.contains <=> TopBitsEqual(ip_in.x, ip_in.ip, ip_in.n)
        /\ ip_in.n = 0 => ip_out.contains
        /\ ip_in.n = 32 => (ip_out.contains <=> ip_in.ip = ip_in.x)

\* "129.255.10.0/9" has been asked for 129.191.10.0, which differs from X in
\* bit 10 only, and contains it.
C27_Witness ==
    /\ ip_out.op = "from_string"
    /\ ip_in.x = IPAddress(129, 255, 10, 0)
    /\ ip_in.n = 9
    /\ ip_in.ip = IPAddress(129, 191, 10, 0)
    /\ ip_out.contains

\* -------------------------------------------------------------------- C28
\* The step is the call n.connect(p, l).
ConnectCall(n, p, l) ==
    /\ calls' = calls + 1
    /\ last_call'.op = "connect" /\ last_call'.node = n
    /\ last_call'.port_id = p /\ last_call'.link = l

\* connect on an occupied port, on a port beyond max_connections, or on a
\* node that has max_connections connections raises and changes nothing.
ConnectFailsWithoutRoom ==
    \A n \in Nodes : \A p \in PortIds : \A l \in Links :
        ConnectCall(n, p, l)
            /\ (\/ p \in DOMAIN connected[n]
                \/ p > max_connections[n]
                \/ connections_count(connected[n]) >= max_connections[n])
        => /\ last_call'.outcome = "AssertionError"
           /\ connected' = connected
           /\ node1' = node1 /\ node2' = node2

\* No node has more connections than max_connections.
WithinMaxConnections ==
    \A n \in Nodes : connections_count(connected[n]) <= max_connections[n]

\* A port that is bound to a link stays bound to that link, in any step.
OccupiedPortKept ==
    \A n \in Nodes : \A p \in DOMAIN connected[n] :
        p \in DOMAIN connected'[n] /\ connected'[n][p] = connected[n][p]

\* C28: NetworkNode.connect(port_id, link) fails when the port is occupied,
\* when port_id is above max_connections, and when the node already has
\* max_connections connections; so no node ever has more than
\* max_connections connections, and an occupied port is never bound to
\* another link.
C28_ConnectKeepsCapacity ==
    /\ []WithinMaxConnections
    /\ [][ConnectFailsWithoutRoom /\ OccupiedPortKept]_vars

\* A switch with room left has just been asked to connect an occupied port
\* to another link: the call raised and the port keeps its link.
C28_Witness ==
    /\ last_call.op = "connect"
    /\ last_call.outcome = "AssertionError"
    /\ last_call.node \in Switches
    /\ last_call.port_id \in DOMAIN connected[last_call.node]
    /\ connected[last_call.node][last_call.port_id] # last_call.link
    /\ connections_count(connected[last_call.node]) < max_connections[last_call.node]

\* -------------------------------------------------------------------- C29
\* Every port of 1 .. max_connections of the node is occupied.
EveryPortOccupied(n) ==
    \A port \in 1 .. max_connections[n] : port \in DOMAIN connected[n]

\* The connect calls that the node accepted so far number max_connections.
\* A port is bound exactly when connect passed its assertions, and it is
\* never unbound.
AcceptedMaxConnections(n) ==
    connections_count(connected[n]) = max_connections[n]

\* C29: after any sequence of connect calls on a node,
\* assert_correctly_full() succeeds exactly when every port of
\* 1 .. max_connections is occupied; in particular it succeeds on a node
\* that has accepted max_connections connections.
C29_CorrectlyFull ==
    last_call.op = "assert_correctly_full" =>
        /\ last_call.outcome = "ok" <=> EveryPortOccupied(last_call.node)
        /\ AcceptedMaxConnections(last_call.node) => last_call.outcome = "ok"

\* The first half alone: the check succeeds exactly when every port of
\* 1 .. max_connections is occupied.
C29_CorrectlyFullIffEveryPortOccupied ==
    last_call.op = "assert_correctly_full" =>
        (last_call.outcome = "ok" <=> EveryPortOccupied(last_call.node))

\* The second half for a node whose ports are all numbered from 1.
C29_FullOnPortsFromOnePasses ==
    (/\ last_call.op = "assert_correctly_full"
     /\ AcceptedMaxConnections(last_call.node)
     /\ \A p \in DOMAIN connected[last_call.node] : p >= 1)
        => last_call.outcome = "ok"

\* The switch has accepted connections on its ports 1 and 2, and the check
\* has passed.
C29_Witness ==
    /\ last_call.op = "assert_correctly_full"
    /\ last_call.node \in Switches
    /\ DOMAIN connected[last_call.node] = {1, 2}
    /\ last_call.outcome = "ok"

\* A host has accepted connect(0, link), its one connection, and the check
\* has raised.
C29_FullOnPortZeroFails ==
    /\ last_call.op = "assert_correctly_full"
    /\ last_call.node \in Hosts
    /\ DOMAIN connected[last_call.node] = {0}
    /\ last_call.outcome = "AssertionError"

\* -------------------------------------------------------------------- C30
\* The endpoint of transmit a's link that is not its sender.
OtherEnd(a) ==
    Only(IF LinkEnds[transmitted[a].link][1] = transmitted[a].sender
         THEN {LinkEnds[transmitted[a].link][2]}
         ELSE {LinkEnds[transmitted[a].link][1]})

\* max(now, next_available_time[dir]) + size_bytes * 8 / bandwidth_bps
\* + propagation_time for transmit a, next_available_time[dir] being the
\* finish of the transmit before it in its direction.
ExpectedArrival(a) ==
    Max(transmitted[a].now, PreviousFinish(a))
        + ((messages[transmitted[a].id + 1].size_bytes * 8) \div LinkBandwidth)
        + PropagationTime

\* The executions of the delivery event that transmit a scheduled.
DeliveriesOf(a) ==
    {k \in 1 .. Len(executed) : executed[k].seq = transmitted[a].seq}

\* The step executes the delivery event that transmit a scheduled.
DeliveryStep(a) ==
    /\ Len(executed') = Len(executed) + 1
    /\ executed'[Len(executed')].seq = transmitted[a].seq

\* Executing the delivery event of a transmit is one dst.post(message), dst
\* being the endpoint other than the sender, at the expected arrival time.
DeliveryPostsToOtherEnd ==
    \A a \in 1 .. Len(transmitted) :
        DeliveryStep(a) =>
            /\ current_time' = ExpectedArrival(a)
            /\ node_log' = Append(node_log,
                                  [op |-> "post", node |-> OtherEnd(a),
                                   id |-> transmitted[a].id,
                                   at |-> ExpectedArrival(a)])
            /\ inbox'[OtherEnd(a)] = Append(inbox[OtherEnd(a)], transmitted[a].id)

\* Each successful transmit scheduled one delivery event, for the expected
\* arrival time; the event is executed at most once, and exactly once when
\* the run has returned; post is called by nothing else.
DeliveredOnce ==
    /\ \A a \in 1 .. Len(transmitted) :
          /\ Cardinality({c \in 1 .. Len(created) :
                             created[c].seq = transmitted[a].seq}) = 1
          /\ \A c \in 1 .. Len(created) :
                created[c].seq = transmitted[a].seq =>
                    /\ created[c].time = ExpectedArrival(a)
                    /\ created[c].now = transmitted[a].now
          /\ Cardinality(DeliveriesOf(a)) <= 1
          /\ pc \in {"idle", "returned"} => Cardinality(DeliveriesOf(a)) = 1
          /\ \A b \in 1 .. Len(transmitted) :
                transmitted[a].seq = transmitted[b].seq => a = b
    /\ Cardinality({j \in 1 .. Len(node_log) : node_log[j].op = "post"})
          = Cardinality({a \in 1 .. Len(transmitted) : DeliveriesOf(a) # {}})

\* C30: for every successful transmit(message, sender) made at time now,
\* dst.post(message) is executed exactly once, on the endpoint other than the
\* sender, at time max(now, next_available_time[dir])
\* + size_bytes * 8 / bandwidth_bps + propagation_time.
C30_DeliveredOnceAtArrival ==
    /\ []DeliveredOnce
    /\ [][DeliveryPostsToOtherEnd]_vars

\* Two messages of the same size were handed to the same link by the same
\* sender at the same time; both have been posted to the other endpoint, the
\* second one serialization duration after the first.
C30_Witness ==
    \E a, b \in 1 .. Len(transmitted) :
        /\ a < b
        /\ transmitted[a].link = transmitted[b].link
        /\ transmitted[a].sender = transmitted[b].sender
        /\ transmitted[a].now = transmitted[b].now
        /\ messages[transmitted[a].id + 1].size_bytes
              = messages[transmitted[b].id + 1].size_bytes
        /\ \E i, j \in 1 .. Len(node_log) :
              /\ node_log[i] = [op |-> "post", node |-> OtherEnd(a),
                                id |-> transmitted[a].id,
                                at |-> ExpectedArrival(a)]
              /\ node_log[j] = [op |-> "post", node |-> OtherEnd(b),
                                id |-> transmitted[b].id,
                                at |-> ExpectedArrival(a)
                                    + serialization_duration_of(
                                          messages[transmitted[b].id + 1].size_bytes)]
        /\ DeliveriesOf(a) # {} /\ DeliveriesOf(b) # {}

\* ============================================ forwarding, step by step
\* The event that the next step of run() executes.
NextEvent == dequeue_item(event_queue)

\* The step executes an event.
ExecutesEvent ==
    /\ pc = "running" /\ event_queue # <<>>
    /\ Len(executed') = Len(executed) + 1

\* The step is a switch's handle_message taking message id from its inbox,
\* that is, the switch's on_message(message) and its forward call.
ForwardBySwitch(node, id) ==
    /\ ExecutesEvent
    /\ NextEvent.action.kind = "handle" /\ NextEvent.action.node = node
    /\ node \in Switches
    /\ inbox[node] # <<>> /\ Head(inbox[node]) = id

\* The step is a host's send_to_ip: message id is created and forwarded.
ForwardByHost(node, id) ==
    /\ ExecutesEvent
    /\ NextEvent.action.kind = "send" /\ NextEvent.action.host = node
    /\ id = Len(messages)

\* The message as the switch's forward call receives it: on_message has
\* counted the switch in path_length.
Arriving(id) == [messages[id + 1] EXCEPT !.path_length = @ + 1]

\* The transmits that the step makes.
NewTransmits == SubSeq(transmitted', Len(transmitted) + 1, Len(transmitted'))

\* -------------------------------------------------------------------- C31
\* Forwarding an expired message marks it dropped and does nothing else.
ExpiredOnlyDropped ==
    \A node \in Switches : \A id \in Ids :
        ForwardBySwitch(node, id)
            /\ ~messages[id + 1].dropped
            /\ is_expired(Arriving(id), NextEvent.time, max_path)
        => /\ messages'[id + 1].dropped
           /\ messages'[id + 1] = [Arriving(id) EXCEPT !.dropped = TRUE]
           /\ NewTransmits = <<>>
           /\ port_to_messages_passed' = port_to_messages_passed
           /\ next_available_time' = next_available_time
           /\ seq_counter' = seq_counter
               + (IF Len(inbox[node]) > 1 THEN 1 ELSE 0)
           /\ pc' = pc

\* C31: forward on an expired message (age above ttl or path_length above
\* max_path) sets dropped and transmits it on no link, whatever its lost
\* flag and whatever the forwarding table: expiry is looked at before lost
\* mode and before normal routing.
C31_ExpiredIsDroppedFirst == [][ExpiredOnlyDropped]_vars

\* A message in lost mode, at a switch that still has an unused healthy port
\* and a table entry for its destination, has been dropped as expired, its
\* last transmit being a lost-mode one.
C31_Witness ==
    \E id \in Ids :
        /\ messages[id + 1].dropped /\ messages[id + 1].lost
        /\ is_expired(messages[id + 1], current_time, max_path)
        /\ TransmissionsOf(id) # <<>>
        /\ LET tx == TransmissionsOf(id)
               node == tx[Len(tx)].dst
           IN /\ node \in Switches
              /\ tx[Len(tx)].lost
              /\ lost_ports(Here, node, id) # {}
              /\ MatchingEntries(node, messages[id + 1].five_tuple.dst_ip) # {}
              /\ node_log[Len(node_log)] =
                    [op |-> "on_message", node |-> node, id |-> id,
                     at |-> current_time]

\* ============================================== a message at a switch
\* One message waits in the inbox of a switch, its handle_message event
\* pending, with its age, its ttl, its path_length and its lost flag drawn
\* around the limits; the run then takes the event. A message in lost mode
\* has used a port, and was sent on by a random.sample that draws.
MaxAge == 3
MaxBirth == 1
ExpiryTtls == {1, 2}

ExpiryInit ==
    /\ NoBuild
    /\ NoIp
    /\ topology \in {"diamond", "hsh"}
    /\ failed = [l \in Links |-> FALSE]
    /\ ip_forward_table = InstallRoutes(Len(Routes), failed)
    /\ sample_accepts_set \in BOOLEAN
    /\ message_ttl \in ExpiryTtls
    /\ \E node \in Switches, src \in Hosts, h \in 0 .. HashRange - 1,
          brith_time \in 0 .. MaxBirth, age \in 0 .. MaxAge,
          lost \in BOOLEAN, seen_port \in 0 .. MaxPorts :
       \E dst_ip \in Destinations(src),
          path_length \in (max_path - 2) .. max_path :
          /\ seen_port <= Len(ports_to_links[node])
          /\ lost => seen_port # 0 /\ sample_accepts_set
          /\ messages =
                <<[Message(0, FiveTuple(HostIp[src], dst_ip), 1, brith_time,
                           message_ttl)
                     EXCEPT !.path_length = path_length, !.lost = lost]>>
          /\ flow_hash = (FiveTuple(HostIp[src], dst_ip) :> h)
          /\ inbox = [n \in Nodes |-> IF n = node THEN <<0>> ELSE <<>>]
          /\ port_to_messages_passed =
                [n \in Nodes |->
                    [port_id \in 1 .. Len(ports_to_links[n]) |->
                        IF n = node /\ port_id = seen_port THEN {0} ELSE {}]]
          /\ current_time = brith_time + age
          /\ event_queue = <<DESEvent(current_time, 0, HandleAction(node))>>
          /\ created = <<[seq |-> 0, time |-> current_time,
                          now |-> current_time, delay |-> 0, by |-> 1]>>
          /\ node_log = <<[op |-> "post", node |-> node, id |-> 0,
                           at |-> current_time]>>
    /\ seq_counter = 1
    /\ end_time = None
    /\ pc = "running"
    /\ until = None
    /\ result = "ok"
    /\ executed = <<>>
    /\ runs = 1
    /\ run_from = 0
    /\ run_t0 = current_time
    /\ left_over = {}
    /\ next_available_time = [l \in Links |-> <<0, 0>>]
    /\ accumulated_transmitting_time = [l \in Links |-> 0]
    /\ accumulated_bytes_transmitted = [l \in Links |-> 0]
    /\ transmitted = <<>>
    /\ delivered_by = <<>>

ExpiryNext == NetRunStep \/ RunExit

ExpirySpec == ExpiryInit /\ [][ExpiryNext]_vars

\* -------------------------------------------------------------------- C32
\* The message's age is at most its ttl and its path_length at most
\* max_path.
WithinLimits(m, now) ==
    now - m.brith_time <= m.ttl /\ m.path_length <= max_path

\* The switch has something to forward the message with: in lost mode an
\* unused healthy port, otherwise a table entry for its destination.
CanForward(node, id) ==
    IF messages[id + 1].lost THEN lost_ports(Here, node, id) # {}
    ELSE MatchingEntries(node, messages[id + 1].five_tuple.dst_ip) # {}

\* A forwarded message is expired exactly when it is beyond a limit; within
\* the limits it is transmitted once (or, where random.sample refuses a
\* set, the lost-mode draw raises), beyond them it is dropped untransmitted.
ExpiredIffBeyondLimit ==
    \A node \in Switches : \A id \in Ids :
        ForwardBySwitch(node, id) /\ ~messages[id + 1].dropped =>
            /\ is_expired(Arriving(id), NextEvent.time, max_path)
                  <=> ~WithinLimits(Arriving(id), NextEvent.time)
            /\ WithinLimits(Arriving(id), NextEvent.time) /\ CanForward(node, id)
                  => \/ /\ Len(NewTransmits) = 1
                        /\ NewTransmits[1].id = id /\ NewTransmits[1].sender = node
                        /\ ~messages'[id + 1].dropped
                     \/ /\ pc' = "raised" /\ ~sample_accepts_set
                        /\ ~messages'[id + 1].dropped
            /\ ~WithinLimits(Arriving(id), NextEvent.time)
                  => messages'[id + 1].dropped /\ NewTransmits = <<>>

\* C32: is_expired(now, max_path) is true exactly when now - birth_time > ttl
\* or path_length > max_path; both comparisons are strict, so a message of
\* age exactly ttl and path_length exactly max_path is not expired and is
\* still forwarded.
C32_ExpiredStrictly == [][ExpiredIffBeyondLimit]_vars

\* A message of age exactly ttl and path_length exactly max_path at the
\* switch has been transmitted by it, and is not dropped.
C32_Witness ==
    /\ Len(executed) = 1 /\ Len(messages) = 1
    /\ executed[1].time - messages[1].brith_time = messages[1].ttl
    /\ messages[1].path_length = max_path
    /\ ~messages[1].dropped
    /\ Len(transmitted) = 1
    /\ transmitted[1].id = 0 /\ transmitted[1].sender \in Switches
    /\ transmitted[1].now = executed[1].time

\* -------------------------------------------------------------------- C33
\* The port that LPM and ECMP select at node for the five-tuple; 0 when no
\* prefix of the table contains its dst_ip.
SelectedPort(node, five_tuple) ==
    LET group == EcmpGroup(node, five_tuple.dst_ip)
    IN IF group = <<>> THEN 0
       ELSE group[(flow_hash[five_tuple] % Len(group)) + 1][1]

\* What normal routing does in a step that forwards message id, of the
\* given five-tuple, at node, the selected port being best_port_id.
RegularForwarding(node, id, best_port_id) ==
    IF id \in port_to_messages_passed[node][best_port_id]
    THEN /\ messages'[id + 1].lost
         /\ \A k \in 1 .. Len(NewTransmits) :
               NewTransmits[k].link # ports_to_links[node][best_port_id]
         /\ \/ /\ lost_ports(Here, node, id) = {}
               /\ messages'[id + 1].dropped /\ NewTransmits = <<>>
               /\ port_to_messages_passed' = port_to_messages_passed
            \/ /\ lost_ports(Here, node, id) # {} /\ sample_accepts_set
               /\ Len(NewTransmits) = 1
               /\ NewTransmits[1].id = id /\ NewTransmits[1].sender = node
               /\ NewTransmits[1].lost
               /\ \E port_id \in lost_ports(Here, node, id) :
                     /\ NewTransmits[1].link = ports_to_links[node][port_id]
                     /\ port_to_messages_passed' =
                           [port_to_messages_passed
                               EXCEPT ![node][port_id] = @ \cup {id}]
               /\ ~messages'[id + 1].dropped
            \/ /\ lost_ports(Here, node, id) # {} /\ ~sample_accepts_set
               /\ pc' = "raised" /\ NewTransmits = <<>>
               /\ ~messages'[id + 1].dropped
    ELSE /\ ~messages'[id + 1].lost /\ ~messages'[id + 1].dropped
         /\ port_to_messages_passed' =
               [port_to_messages_passed
                   EXCEPT ![node][best_port_id] = @ \cup {id}]
         /\ Len(NewTransmits) = 1
         /\ NewTransmits[1].id = id /\ NewTransmits[1].sender = node
         /\ NewTransmits[1].link = ports_to_links[node][best_port_id]
         /\ ~NewTransmits[1].lost

RegularForwardingChecksSeen ==
    /\ \A node \in Switches : \A id \in Ids :
          (/\ ForwardBySwitch(node, id)
           /\ ~messages[id + 1].dropped /\ ~messages[id + 1].lost
           /\ ~is_expired(Arriving(id), NextEvent.time, max_path)
           /\ SelectedPort(node, messages[id + 1].five_tuple) # 0)
          => RegularForwarding(node, id,
                               SelectedPort(node, messages[id + 1].five_tuple))
    /\ \A node \in Hosts :
          (/\ ForwardByHost(node, Len(messages))
           /\ SelectedPort(node, FiveTuple(HostIp[node],
                                            NextEvent.action.dst_ip)) # 0)
          => /\ Len(messages') = Len(messages) + 1
             /\ Len(messages) \notin port_to_messages_passed[node][1]
             /\ RegularForwarding(node, Len(messages),
                    SelectedPort(node, FiveTuple(HostIp[node],
                                                 NextEvent.action.dst_ip)))

\* C33: when the port that LPM/ECMP selects already has the message's id in
\* its seen set, forward does not transmit over that port: it sets lost and
\* handles the message by lost-mode selection within the same call;
\* otherwise it adds the id to the port's seen set and transmits over that
\* port.
C33_SeenPortTurnsLost == [][RegularForwardingChecksSeen]_vars

\* A message came back to a switch whose selected port it had used: it is
\* lost now, and its last transmit, made by that switch in the same step
\* through another port, is a lost-mode one following a normal one.
C33_Witness ==
    \E id \in Ids :
        LET tx == TransmissionsOf(id)
        IN /\ Len(tx) >= 3
           /\ messages[id + 1].lost /\ ~messages[id + 1].dropped
           /\ tx[Len(tx)].lost /\ ~tx[Len(tx) - 1].lost
           /\ tx[Len(tx)].sender \in Switches
           /\ \E k \in 1 .. Len(tx) - 1 :
                 /\ tx[k].sender = tx[Len(tx)].sender
                 /\ tx[k].link # tx[Len(tx)].link
                 /\ PortOf(tx[k].sender, tx[k].link)
                       = SelectedPort(tx[k].sender, messages[id + 1].five_tuple)

\* -------------------------------------------------------------------- C34
\* No two transmits carry the same message out of the same port of the same
\* node, and the seen set of a transmit's port holds the message's id.
TransmittedOncePerPort ==
    /\ \A a, b \in 1 .. Len(transmitted) :
          /\ transmitted[a].id = transmitted[b].id
          /\ transmitted[a].sender = transmitted[b].sender
          /\ transmitted[a].link = transmitted[b].link
          => a = b
    /\ \A a \in 1 .. Len(transmitted) :
          transmitted[a].id \in
              port_to_messages_passed[transmitted[a].sender]
                  [PortOf(transmitted[a].sender, transmitted[a].link)]

\* A step that transmits adds the message's id to the seen set of the port,
\* which did not hold it; seen sets only grow.
TransmitMarksPort ==
    /\ \A k \in 1 .. Len(NewTransmits) :
          LET node == NewTransmits[k].sender
              port_id == PortOf(node, NewTransmits[k].link)
          IN /\ NewTransmits[k].id \notin port_to_messages_passed[node][port_id]
             /\ NewTransmits[k].id \in port_to_messages_passed'[node][port_id]
    /\ \A node \in Nodes : \A port_id \in DOMAIN port_to_messages_passed[node] :
          port_to_messages_passed[node][port_id]
              \subseteq port_to_messages_passed'[node][port_id]

\* C34: in every run no message is transmitted more than once through the
\* same port of the same node, in normal or lost mode: each transmit by a
\* node comes with the message id being added to that port's seen set, which
\* did not contain it.
C34_OncePerPort ==
    /\ []TransmittedOncePerPort
    /\ [][TransmitMarksPort]_vars

\* A switch has transmitted the same message twice, through two different
\* ports, the second time in lost mode with the first port marked.
C34_Witness ==
    \E a, b \in 1 .. Len(transmitted) :
        /\ a < b
        /\ transmitted[a].id = transmitted[b].id
        /\ transmitted[a].sender = transmitted[b].sender
        /\ transmitted[a].sender \in Switches
        /\ transmitted[a].link # transmitted[b].link
        /\ ~transmitted[a].lost /\ transmitted[b].lost
        /\ \A l \in {transmitted[a].link, transmitted[b].link} :
              transmitted[a].id \in
                  port_to_messages_passed[transmitted[a].sender]
                      [PortOf(transmitted[a].sender, l)]

\* -------------------------------------------------------------------- C35
\* The ports of node on a link that is not failed which message id has not
\* used.
FreePorts(node, id) ==
    {port_id \in DOMAIN ports_to_links[node] :
        /\ ~failed[ports_to_links[node][port_id]]
        /\ id \notin port_to_messages_passed[node][port_id]}

\* What forward does with a message in lost mode: dropped exactly when no
\* port is free, otherwise transmitted over one free port, which is marked.
LostForwarding(node, id) ==
    /\ messages'[id + 1].dropped <=> FreePorts(node, id) = {}
    /\ FreePorts(node, id) = {} =>
          /\ NewTransmits = <<>>
          /\ port_to_messages_passed' = port_to_messages_passed
    /\ FreePorts(node, id) # {} =>
          /\ Len(NewTransmits) = 1
          /\ NewTransmits[1].id = id /\ NewTransmits[1].sender = node
          /\ \E port_id \in FreePorts(node, id) :
                /\ NewTransmits[1].link = ports_to_links[node][port_id]
                /\ port_to_messages_passed' =
                      [port_to_messages_passed
                          EXCEPT ![node][port_id] = @ \cup {id}]

\* The step is a switch forwarding a message that is not dropped and not
\* expired, in lost mode: the message came in lost, or normal routing
\* selects a port that it has used and turns it lost.
ForwardsLost(node, id) ==
    /\ ForwardBySwitch(node, id)
    /\ ~messages[id + 1].dropped
    /\ ~is_expired(Arriving(id), NextEvent.time, max_path)
    /\ \/ messages[id + 1].lost
       \/ /\ SelectedPort(node, messages[id + 1].five_tuple) # 0
          /\ id \in port_to_messages_passed[node]
                        [SelectedPort(node, messages[id + 1].five_tuple)]

LostModeForwarding ==
    \A node \in Switches : \A id \in Ids :
        ForwardsLost(node, id) => LostForwarding(node, id)

\* C35: for a non-expired message in lost mode, forward drops the message
\* exactly when the node has no port that is both on a non-failed link and
\* unused by the message; otherwise it transmits the message over exactly
\* one such port and records the id in that port's seen set.
C35_LostModeForwarding == [][LostModeForwarding]_vars

\* The same where random.sample draws from a set.
C35_LostModeForwardingWhenSampleDraws ==
    [][sample_accepts_set => LostModeForwarding]_vars

\* A message that entered a switch in lost mode has been transmitted by it
\* in lost mode.
C35_Witness ==
    \E a, b \in 1 .. Len(transmitted) :
        /\ a < b
        /\ transmitted[a].id = transmitted[b].id
        /\ transmitted[a].lost /\ transmitted[b].lost
        /\ transmitted[a].dst = transmitted[b].sender
        /\ transmitted[b].sender \in Switches
        /\ transmitted[b].now = transmitted[a].arrival

\* A message turned lost at a switch with a free port, and run() was left
\* by the exception of random.sample: the message is neither transmitted by
\* that switch nor dropped.
C35_LostNotForwarded ==
    /\ pc = "raised" /\ ~sample_accepts_set
    /\ \E id \in Ids :
          LET tx == TransmissionsOf(id)
          IN /\ tx # <<>> /\ ~tx[Len(tx)].lost
             /\ tx[Len(tx)].dst \in Switches
             /\ messages[id + 1].lost /\ ~messages[id + 1].dropped
             /\ FreePorts(tx[Len(tx)].dst, id) # {}
             /\ node_log[Len(node_log)] =
                   [op |-> "on_message", node |-> tx[Len(tx)].dst, id |-> id,
                    at |-> current_time]

\* -------------------------------------------------------------------- C36
\* dequeue on the queue as it is: the item returned has a time that no
\* element of the queue is below, and the heap left holds the other elements,
\* each once.
DequeueTakesMinimum ==
    ~empty(event_queue) =>
        LET item == dequeue_item(event_queue)
            rest == dequeue_rest(event_queue)
        IN /\ \A i \in 1 .. Len(event_queue) : item.time <= event_queue[i].time
           /\ \E i \in 1 .. Len(event_queue) : event_queue[i] = item
           /\ heap_len(rest) = heap_len(event_queue) - 1
           /\ {rest[i].seq : i \in 1 .. Len(rest)} = QueueSeqs \ {item.seq}
           /\ \A i \in 1 .. Len(rest) : \E j \in 1 .. Len(event_queue) :
                 rest[i] = event_queue[j]

\* The queue holds the events enqueued and not dequeued since, each once:
\* those created by schedule_event whose action has not been executed (an
\* event dequeued beyond `until` is enqueued again in the same step).
QueueHoldsPending ==
    /\ QueueSeqs = CreatedSeqs \ ExecutedSeqs(0, Len(executed))
    /\ \A sq \in QueueSeqs : TimesQueued(sq) = 1
    /\ \A i \in 1 .. Len(event_queue) :
          event_queue[i].time = CreatedTime(event_queue[i].seq)

\* empty() tells whether anything is pending, and agrees with len.
EmptyIffNothingPending ==
    /\ empty(event_queue) <=> CreatedSeqs \ ExecutedSeqs(0, Len(executed)) = {}
    /\ empty(event_queue) <=> heap_len(event_queue) = 0
    /\ heap_len(event_queue)
          = Cardinality(CreatedSeqs \ ExecutedSeqs(0, Len(executed)))

\* A step of run() that executes an event executes one of minimal time among
\* the queued ones, and takes it out of the queue.
RunTakesMinimum ==
    (pc = "running" /\ Len(executed') = Len(executed) + 1) =>
        /\ \A i \in 1 .. Len(event_queue) :
              executed'[Len(executed')].time <= event_queue[i].time
        /\ executed'[Len(executed')].seq \in QueueSeqs
        /\ executed'[Len(executed')].seq \notin
              {event_queue'[i].seq : i \in 1 .. Len(event_queue')}

\* C36: MinValuePriorityQueue.dequeue removes and returns an element whose
\* time is minimal among the elements in the queue; after any sequence of
\* enqueue and dequeue the queue holds exactly the enqueued elements not yet
\* dequeued; empty() is true exactly when there is none (len == 0).
C36_QueueIsMinHeapOfPending ==
    /\ [](DequeueTakesMinimum /\ QueueHoldsPending /\ EmptyIffNothingPending)
    /\ [][RunTakesMinimum]_vars

\* An event has just been dequeued and executed ahead of two events that
\* were enqueued before it and are still queued, one of them for a later
\* time.
C36_Witness ==
    /\ executed # <<>>
    /\ Len(event_queue) >= 2
    /\ \A i \in 1 .. Len(event_queue) :
          event_queue[i].seq < executed[Len(executed)].seq
    /\ \E i \in 1 .. Len(event_queue) :
          executed[Len(executed)].time < event_queue[i].time

\* -------------------------------------------------------------------- C37
\* The events a single run() executes from the scheduler state s, in order:
\* the loop of run with until = None, each action scheduling what it holds.
RECURSIVE RunToEnd(_)
RunToEnd(s) ==
    IF empty(s.q) THEN <<>>
    ELSE LET event == dequeue_item(s.q)
             rest == dequeue_rest(s.q)
         IN <<[seq |-> event.seq, time |-> event.time]>>
               \o RunToEnd(run_action(Sched(rest, s.n, s.c, s.by),
                                      event.time, event.action))

\* What run() would execute from the present state, and from the next.
RestOfRun == RunToEnd(Sched(event_queue, seq_counter, <<>>, 0))
RestOfRunAfter == RunToEnd(Sched(event_queue', seq_counter', <<>>, 0))

\* The step of run(until=u) that finds the earliest event beyond u, puts it
\* back and returns.
BreaksAtUntil ==
    /\ pc = "running"
    /\ ~empty(event_queue)
    /\ beyond_until(NextEvent, until)
    /\ pc' = "returned"

\* C37 (as claimed): run(until=u) followed by run() executes the same events
\* in the same order and at the same times as a single run(): up to the
\* break both execute the same steps, and the break leaves a queue from
\* which run() executes what it would have executed without the break, also
\* when other events share the time of the event put back.
C37_SplitRunSameAsSingleRun ==
    [][BreaksAtUntil => RestOfRunAfter = RestOfRun]_vars

\* What does hold: the break keeps the times of the executions still to
\* come, their number, and the order of events of different times.
TimesOf(run) == [i \in 1 .. Len(run) |-> run[i].time]
C37_SplitRunSameTimes ==
    [][BreaksAtUntil => TimesOf(RestOfRunAfter) = TimesOf(RestOfRun)]_vars

\* What does hold: when no queued event shares the time of the event put
\* back, and no action schedules anything, the break changes nothing in
\* what run() then executes.
C37_SplitRunSameWhenTimesDiffer ==
    [][(/\ BreaksAtUntil
        /\ \A i \in 1 .. Len(event_queue) :
              /\ event_queue[i].action = <<>>
              /\ \A j \in 1 .. Len(event_queue) :
                    i # j => event_queue[i].time # event_queue[j].time)
          => RestOfRunAfter = RestOfRun]_vars

\* A bounded run has returned after putting an event back among others of
\* the same time.
C37_Witness ==
    /\ pc = "returned"
    /\ until # None
    /\ Len(event_queue) >= 2
    /\ \A i \in 1 .. Len(event_queue) : event_queue[i].time > until
    /\ \E i, j \in 1 .. Len(event_queue) :
          i # j /\ event_queue[i].time = event_queue[j].time

\* -------------------------------------------------------------------- C38
\* The post calls and the on_message calls of a node, in call order.
PostsOf(node) ==
    SelectSeq(node_log, LAMBDA r : r.op = "post" /\ r.node = node)
OnMessagesOf(node) ==
    SelectSeq(node_log, LAMBDA r : r.op = "on_message" /\ r.node = node)

\* The k-th on_message call of a node is for the k-th message posted to it
\* and is made at the simulated time of that post; the messages posted and
\* not yet handled are those of the inbox. So no post is handled twice.
HandledOnceAtPostTime ==
    \A node \in Nodes :
        /\ Len(OnMessagesOf(node)) + Len(inbox[node]) = Len(PostsOf(node))
        /\ \A k \in 1 .. Len(OnMessagesOf(node)) :
              /\ OnMessagesOf(node)[k].id = PostsOf(node)[k].id
              /\ OnMessagesOf(node)[k].at = PostsOf(node)[k].at
        /\ \A k \in 1 .. Len(inbox[node]) :
              inbox[node][k] = PostsOf(node)[Len(OnMessagesOf(node)) + k].id

\* With no event left every inbox is empty: every post has been handled.
EmptyQueueEmptyInboxes ==
    empty(event_queue) =>
        \A node \in Nodes :
            /\ inbox[node] = <<>>
            /\ Len(OnMessagesOf(node)) = Len(PostsOf(node))

\* A handle_message event that finds the inbox of its node empty.
IdleHandle ==
    /\ ExecutesEvent
    /\ NextEvent.action.kind = "handle"
    /\ inbox[NextEvent.action.node] = <<>>

\* Such an event leaves everything but the clock as it was, and the queue
\* without it.
IdleHandleChangesNothing ==
    IdleHandle =>
        /\ event_queue' = dequeue_rest(event_queue)
        /\ UNCHANGED <<seq_counter, created, pc, result>>
        /\ UNCHANGED netvars

PortLinksHaveNodeAsEndpoint ==
    \A n \in Nodes : \A p \in DOMAIN connected[n] :
        n \in {node1[connected[n][p]], node2[connected[n][p]]}

\* A connect call that passes the node's assertions and finds the link with
\* two endpoints raises and leaves the port map as it was.
ConnectToFullLinkChangesNothing ==
    \A n \in Nodes : \A p \in PortIds : \A l \in Links :
        (/\ ConnectCall(n, p, l)
         /\ node1[l] # NoNode /\ node2[l] # NoNode
         /\ p \notin DOMAIN connected[n]
         /\ p <= max_connections[n]
         /\ connections_count(connected[n]) < max_connections[n])
        => /\ last_call'.outcome = "Exception"
           /\ connected' = connected

\* C39 (as claimed): after any sequence of connect calls, successful or
\* failed, every link in a node's ports_to_links has that node as one of its
\* two endpoints; a connect that fails because the link already has two
\* endpoints leaves the node's port map unchanged.
C39_PortMapMatchesEndpoints ==
    /\ []PortLinksHaveNodeAsEndpoint
    /\ [][ConnectToFullLinkChangesNothing]_vars

\* What does hold: a connect to a link with two endpoints raises and leaves
\* the link's endpoints as they were, and a port's link lacks the node among
\* its endpoints only when it has two other endpoints.
C39_RefusedLinkKeepsEndpoints ==
    /\ [](\A n \in Nodes : \A p \in DOMAIN connected[n] :
             \/ n \in {node1[connected[n][p]], node2[connected[n][p]]}
             \/ /\ node1[connected[n][p]] # NoNode
                /\ node2[connected[n][p]] # NoNode)
    /\ [][\A n \in Nodes : \A p \in PortIds : \A l \in Links :
             (ConnectCall(n, p, l) /\ node1[l] # NoNode /\ node2[l] # NoNode)
             => /\ last_call'.outcome \in {"Exception", "AssertionError"}
                /\ node1' = node1 /\ node2' = node2]_vars

\* A connect call has just been refused by a link that has two endpoints.
C39_Witness ==
    /\ last_call.op = "connect"
    /\ last_call.outcome = "Exception"
    /\ node1[last_call.link] # NoNode
    /\ node2[last_call.link] # NoNode

\* -------------------------------------------------------------------- C40
\* The places a message is in: the delivery events queued for it and the
\* inbox entries that hold it.
PendingDeliveries(id) ==
    Cardinality({i \in 1 .. Len(event_queue) :
                    /\ event_queue[i].action.kind = "deliver"
                    /\ event_queue[i].action.id = id})
InboxEntries(id) ==
    LET Count(node) ==
            Cardinality({k \in 1 .. Len(inbox[node]) : inbox[node][k] = id})
        RECURSIVE Sum(_)
        Sum(S) == IF S = {} THEN 0
                  ELSE LET n == CHOOSE x \in S : TRUE
                       IN Count(n) + Sum(S \ {n})
    IN Sum(Nodes)
Places(id) == PendingDeliveries(id) + InboxEntries(id)

Terminal(m) == m.delivered \/ m.dropped

\* A message is in at most one place, and a delivered or dropped message is
\* in none; no message is both delivered and dropped.
AtMostOnePlace ==
    \A id \in 0 .. Len(messages) - 1 :
        /\ Places(id) <= 1
        /\ Terminal(messages[id + 1]) => Places(id) = 0
        /\ ~(messages[id + 1].delivered /\ messages[id + 1].dropped)

\* A step leaves a delivered or dropped message as it is: no transmit, no
\* post and no on_message call is made for it, and its fields stay.
TerminalStays ==
    \A id \in 0 .. Len(messages) - 1 :
        Terminal(messages[id + 1]) =>
            /\ messages'[id + 1] = messages[id + 1]
            /\ \A i \in 1 .. Len(NewTransmits) : NewTransmits[i].id # id
            /\ \A i \in Len(node_log) + 1 .. Len(node_log') :
                  node_log'[i].id # id

\* forward is never entered with a dropped (or delivered) message, so its
\* assertion `not message.dropped` holds at every call.
ForwardPreconditionHolds ==
    \A node \in Nodes : \A id \in 0 .. Len(messages) - 1 :
        ForwardBySwitch(node, id) => ~Terminal(messages[id + 1])

====
